---------------------------- MODULE Spec2Model ----------------------------
(***************************************************************************)
(* MsABON: discovery-to-REST mapping engine.                               *)
(*                                                                         *)
(* Part I  (Spec)    : the connection / discovery / retry life cycle of    *)
(*                     every configured connection, the route table, the   *)
(*                     schema registry and the path document.              *)
(* Part II (SpecReq) : the key and write handlers registered for one       *)
(*                     discovered table, run against a small database.     *)
(*         (SpecList): the list handler of one discovered table or view,   *)
(*                     given one query string.                             *)
(*                                                                         *)
(* A name that may contain '_' is a sequence of '_'-free segments, so that *)
(* `${endpoint}_${table}` is concatenation and split('_') is the sequence  *)
(* itself.  A string the code parses (limit, offset, order) is a sequence  *)
(* of one-character strings.                                               *)
(***************************************************************************)
EXTENDS Integers, Sequences, FiniteSets, Bags, TLC

(***************************************************************************)
(* Bounds of the model.                                                    *)
(***************************************************************************)
\* retries a connection may make in the model (the code has no limit)
MaxRetries == 1

\* column values and key values are the decimal strings of 1..MaxVal
MaxVal == 2

\* object names of the catalog have 1..MaxNameLen characters
MaxNameLen == 2

\* a template is made of at most MaxPieces pieces
MaxPieces == 2

(***************************************************************************)
(* Program constants.                                                      *)
(***************************************************************************)
delayMs == 30000

\* sql.MAX
SqlMax == 65535

\* the rowLimit of an advanced request that gives none
DefaultRowLimit == 1000

NULL == "null"

(***************************************************************************)
(* The configuration (config.yaml) and the catalog each database reports   *)
(* to the discovery queries.  Catalog rows are what getColumns,            *)
(* getPrimaryKey (a set: the query has no ORDER BY), hasEnabledTriggers    *)
(* and getIdentityColumn return for the object.                            *)
(***************************************************************************)
\* SQL type names, as the character strings the type mapper inspects
Ty_int == <<"i", "n", "t">>
Ty_varchar == <<"v", "a", "r", "c", "h", "a", "r">>
Ty_datetime == <<"d", "a", "t", "e", "t", "i", "m", "e">>

Ty_char == <<"c", "h", "a", "r">>
Ty_text == <<"t", "e", "x", "t">>
Ty_ntext == <<"n", "t", "e", "x", "t">>
Ty_bigint == <<"b", "i", "g", "i", "n", "t">>
Ty_bit == <<"b", "i", "t">>
Ty_decimal == <<"d", "e", "c", "i", "m", "a", "l">>
Ty_numeric == <<"n", "u", "m", "e", "r", "i", "c">>
Ty_float == <<"f", "l", "o", "a", "t">>
Ty_real == <<"r", "e", "a", "l">>
Ty_date == <<"d", "a", "t", "e">>
Ty_time == <<"t", "i", "m", "e">>
Ty_uniqueidentifier ==
  <<"u", "n", "i", "q", "u", "e", "i", "d", "e", "n", "t", "i", "f", "i", "e", "r">>

\* the DATA_TYPE of the object {} (a property that is not there)
Undefined == <<"undefined">>

\* a row of getColumns (CHARACTER_MAXIMUM_LENGTH 0: the catalog's null)
Col(n, t, len) ==
  [COLUMN_NAME |-> n, DATA_TYPE |-> t, CHARACTER_MAXIMUM_LENGTH |-> len]

\* a row of getProcedureParams or getFunctionParams
Param(name, type, len, isOutput) ==
  [PARAM_NAME |-> name, TYPE_NAME |-> type, MAX_LENGTH |-> len, IS_OUTPUT |-> isOutput]

TblOrders ==
  [kind |-> "t", schema |-> "dbo", name |-> <<"orders">>,
   columns |-> <<Col("id", Ty_int, 0), Col("name", Ty_varchar, 50)>>,
   pkRows |-> {"id"}, hasTriggers |-> FALSE, identity |-> "id", ftype |-> NULL]

TblLines ==
  [kind |-> "t", schema |-> "dbo", name |-> <<"order", "lines">>,
   columns |-> <<Col("order_id", Ty_int, 0), Col("line_no", Ty_int, 0)>>,
   pkRows |-> {"order_id", "line_no"}, hasTriggers |-> TRUE, identity |-> NULL,
   ftype |-> NULL]

ViewOpen ==
  [kind |-> "v", schema |-> "dbo", name |-> <<"open", "orders">>,
   columns |-> <<Col("id", Ty_int, 0), Col("name", Ty_varchar, 50)>>,
   pkRows |-> {}, hasTriggers |-> FALSE, identity |-> NULL, ftype |-> NULL]

ProcPrune ==
  [kind |-> "p", schema |-> "dbo", name |-> <<"usp", "prune">>,
   columns |-> <<>>, pkRows |-> {}, hasTriggers |-> FALSE, identity |-> NULL,
   ftype |-> NULL,
   params |-> <<Param("days", Ty_int, 0, FALSE), Param("removed", Ty_bigint, 0, TRUE)>>]

TblAudit ==
  [kind |-> "t", schema |-> "crm", name |-> <<"audit">>,
   columns |-> <<Col("ts", Ty_datetime, 0), Col("msg", Ty_varchar, 0)>>,
   pkRows |-> {}, hasTriggers |-> TRUE, identity |-> NULL, ftype |-> NULL]

\* the key column is not the first column
TblCustomers ==
  [kind |-> "t", schema |-> "crm", name |-> <<"customers">>,
   columns |-> <<Col("name", Ty_varchar, 50), Col("code", Ty_int, 0)>>,
   pkRows |-> {"code"}, hasTriggers |-> TRUE, identity |-> NULL, ftype |-> NULL]

\* a table with an enabled trigger and an identity key
TblTickets ==
  [kind |-> "t", schema |-> "crm", name |-> <<"tickets">>,
   columns |-> <<Col("id", Ty_int, 0), Col("note", Ty_varchar, 50)>>,
   pkRows |-> {"id"}, hasTriggers |-> TRUE, identity |-> "id", ftype |-> NULL]

FnScore ==
  [kind |-> "f", schema |-> "crm", name |-> <<"fn", "score">>,
   columns |-> <<>>, pkRows |-> {}, hasTriggers |-> FALSE, identity |-> NULL,
   ftype |-> "FN",
   params |-> <<Param("note", Ty_varchar, 50, FALSE)>>]

\* cfg.connections
Connections ==
  <<[endpoint |-> <<"api">>, advanced |-> TRUE,
     objects |-> <<TblOrders, TblLines, ViewOpen, ProcPrune>>],
    [endpoint |-> <<"crm">>, advanced |-> FALSE,
     objects |-> <<TblAudit, TblCustomers, TblTickets, FnScore>>]>>

Conns == DOMAIN Connections

\* const endpoint = c.endpoint || 'api'
EndpointOf(c) == Connections[c].endpoint

\* the objects setupDynamicRoutes walks, in its order: tables, views,
\* procedures, functions
Objects(c) == Connections[c].objects

\* the orders in which getPrimaryKey may return its rows
PkOrders(rows) ==
  {s \in [1..Cardinality(rows) -> rows] :
     \A i, j \in 1..Cardinality(rows) : s[i] = s[j] => i = j}

VARIABLES
  pc,              \* per connection: "connecting", "discovering", "waiting", "done"
  attempt,         \* per connection: the attempt argument of connectAndSetupWithRetry
  pos,             \* per connection: the object setupDynamicRoutes describes next
  openApiSchemas,  \* per connection: the fragments setupDynamicRoutes has built so far
  timers,          \* per connection: the pending setTimeout callbacks
  thenState,       \* per connection: the .then of the first call: "pending", "queued", "ran"
  routes,          \* app: the bag of registered routes
  schemas,         \* components.schemas: key -> fragment
  paths,           \* openApi.paths: set of [path, method]
  tableMeta,       \* the tableMeta closed over by the handlers under request
  endpoint,        \* ... and their endpoint
  db,              \* the rows of that table in the database
  ident,           \* the last identity value the database generated for it
  request,         \* the request received (route, query or body) and whether it is pending
  last             \* the last request handled: input, statement sent, response

lifeVars == <<pc, attempt, pos, openApiSchemas, timers, thenState, routes, schemas, paths>>

reqVars == <<tableMeta, endpoint, db, ident, request, last>>

vars == <<lifeVars, reqVars>>

(***************************************************************************)
(* Route registration.                                                     *)
(***************************************************************************)
Route(ep, kind, name, method, byKey, key) ==
  [ep |-> ep, kind |-> kind, name |-> name, method |-> method,
   byKey |-> byKey, key |-> key]

\* tableMeta as setupDynamicRoutes builds it for a table (pk: one of the row
\* orders) or a view (pk: [], hasTriggers: false, identity: null)
TableMeta(o, pk) ==
  [schema |-> o.schema, table |-> o.name, columns |-> o.columns,
   pk |-> IF o.kind = "v" THEN <<>> ELSE pk,
   isView |-> o.kind = "v",
   hasTriggers |-> IF o.kind = "v" THEN FALSE ELSE o.hasTriggers,
   identity |-> IF o.kind = "v" THEN NULL ELSE o.identity]

\* if (!isView && pk): pk is tableMeta.pk && tableMeta.pk[0]
HasKeyRoutes(meta) == ~meta.isView /\ Len(meta.pk) > 0

\* registerRoutes: the routes it adds to app
registerRoutes(meta, ep) ==
  LET kind == IF meta.isView THEN "v" ELSE "t"
      list == {Route(ep, kind, meta.table, "GET", FALSE, NULL)}
  IN  IF HasKeyRoutes(meta)
      THEN list \cup {Route(ep, kind, meta.table, "GET", TRUE, meta.pk[1]),
                      Route(ep, kind, meta.table, "POST", FALSE, NULL),
                      Route(ep, kind, meta.table, "PUT", TRUE, meta.pk[1]),
                      Route(ep, kind, meta.table, "DELETE", TRUE, meta.pk[1])}
      ELSE list

registerProcRoutes(o, ep) == {Route(ep, "p", o.name, "POST", FALSE, NULL)}

registerFunctionRoutes(o, ep) == {Route(ep, "f", o.name, "POST", FALSE, NULL)}

registerAdvancedRoute(ep) == {Route(ep, "a", <<>>, "POST", FALSE, NULL)}

(***************************************************************************)
(* Schema fragments.                                                       *)
(***************************************************************************)
Fragment(kind, isView, hasPk, fType) ==
  [kind |-> kind, isView |-> isView, hasPk |-> hasPk, fType |-> fType]

\* const name = `${endpoint}_${table}`
FragmentKey(ep, name) == ep \o name

\* the fragment setupDynamicRoutes stores for a discovered object
FragmentOf(o, pk) ==
  CASE o.kind = "t" -> Fragment("t", FALSE, Len(pk) > 0, NULL)
    [] o.kind = "v" -> Fragment("v", TRUE, FALSE, NULL)
    [] o.kind = "p" -> Fragment("p", FALSE, FALSE, NULL)
    [] o.kind = "f" -> Fragment("f", FALSE, FALSE, o.ftype)

AdvancedFragment == Fragment("a", FALSE, FALSE, NULL)

\* { ...a, ...b }
Merge(a, b) ==
  [k \in DOMAIN a \cup DOMAIN b |-> IF k \in DOMAIN b THEN b[k] ELSE a[k]]

Put(m, k, v) == [x \in DOMAIN m \cup {k} |-> IF x = k THEN v ELSE m[x]]

EmptyMap == [k \in {} |-> NULL]

(***************************************************************************)
(* buildPathsFromComponents.                                               *)
(***************************************************************************)
PathEntry(ep, kind, entity, shape, method) ==
  [ep |-> ep, kind |-> kind, entity |-> entity, shape |-> shape, method |-> method]

\* the entries one fragment contributes; parts = name.split('_')
PathsOfFragment(parts, sch) ==
  LET ep == Head(parts)
      entity == Tail(parts)
      kind == sch.kind
  IN  CASE kind = "p" -> {PathEntry(ep, kind, entity, "base", "post")}
        [] kind = "f" -> {PathEntry(ep, kind, entity, "base", "post")}
        [] kind = "v" -> {PathEntry(ep, kind, entity, "base", "get")}
        [] OTHER ->
             {PathEntry(ep, kind, entity, "base", "get")}
             \cup (IF sch.hasPk
                   THEN {PathEntry(ep, kind, entity, "base", "post"),
                         PathEntry(ep, kind, entity, "id", "get"),
                         PathEntry(ep, kind, entity, "id", "put"),
                         PathEntry(ep, kind, entity, "id", "delete")}
                   ELSE {})
             \cup (IF kind = "a"
                   THEN {PathEntry(ep, "a", <<>>, "adv", "post")}
                   ELSE {})

buildPathsFromComponents(sch) ==
  UNION {PathsOfFragment(k, sch[k]) : k \in DOMAIN sch}

(***************************************************************************)
(* connectAndSetupWithRetry and setupDynamicRoutes.                        *)
(***************************************************************************)
\* a catch block that schedules the retry twice
ScheduleRetryTwice(ts, n) ==
  ts \o <<[delay |-> delayMs, attempt |-> n + 1], [delay |-> delayMs, attempt |-> n + 1]>>

\* setTimeout(() => connectAndSetupWithRetry(app, components, c, attempt + 1), delayMs)
ScheduleRetry(ts, n) == Append(ts, [delay |-> delayMs, attempt |-> n + 1])

\* the promise of the first call settles when its doAttempt returns
SettleFirst(c) ==
  thenState' = [thenState EXCEPT ![c] =
                  IF attempt[c] = 0 /\ @ = "pending" THEN "queued" ELSE @]

\* doAttempt's catch block
CatchAndRetry(c) ==
  /\ timers' = [timers EXCEPT ![c] = ScheduleRetry(@, attempt[c])]
  /\ pc' = [pc EXCEPT ![c] = "waiting"]
  /\ SettleFirst(c)

\* promise reactions run before the event loop takes the next I/O or timer
\* callback
MicrotasksDrained == \A c \in Conns : thenState[c] # "queued"

LifeInit ==
  /\ pc = [c \in Conns |-> "connecting"]
  /\ attempt = [c \in Conns |-> 0]
  /\ pos = [c \in Conns |-> 1]
  /\ openApiSchemas = [c \in Conns |-> EmptyMap]
  /\ timers = [c \in Conns |-> <<>>]
  /\ thenState = [c \in Conns |-> "pending"]
  /\ routes = EmptyBag
  /\ schemas = EmptyMap
  /\ paths = buildPathsFromComponents(EmptyMap)

\* new sql.ConnectionPool(poolConfig).connect() resolves
ConnectOk(c) ==
  /\ MicrotasksDrained
  /\ pc[c] = "connecting"
  /\ pc' = [pc EXCEPT ![c] = "discovering"]
  /\ pos' = [pos EXCEPT ![c] = 1]
  /\ openApiSchemas' = [openApiSchemas EXCEPT ![c] = EmptyMap]
  /\ UNCHANGED <<attempt, timers, thenState, routes, schemas, paths>>
  /\ UNCHANGED reqVars

\* ... or rejects
ConnectFail(c) ==
  /\ MicrotasksDrained
  /\ pc[c] = "connecting"
  /\ CatchAndRetry(c)
  /\ UNCHANGED <<attempt, pos, openApiSchemas, routes, schemas, paths>>
  /\ UNCHANGED reqVars

\* the routes and the fragment one loop iteration of setupDynamicRoutes adds
RoutesFor(o, pk, ep) ==
  CASE o.kind \in {"t", "v"} -> registerRoutes(TableMeta(o, pk), ep)
    [] o.kind = "p" -> registerProcRoutes(o, ep)
    [] o.kind = "f" -> registerFunctionRoutes(o, ep)

\* one iteration of a discovery loop: the object's catalog queries answer,
\* its routes are registered and its fragment is stored in openApiSchemas
DiscoverObject(c) ==
  /\ MicrotasksDrained
  /\ pc[c] = "discovering"
  /\ pos[c] <= Len(Objects(c))
  /\ LET o == Objects(c)[pos[c]]
     IN  \E pk \in PkOrders(o.pkRows) :
           /\ routes' = routes (+) SetToBag(RoutesFor(o, pk, EndpointOf(c)))
           /\ openApiSchemas' =
                [openApiSchemas EXCEPT ![c] =
                   Put(@, FragmentKey(EndpointOf(c), o.name), FragmentOf(o, pk))]
  /\ pos' = [pos EXCEPT ![c] = @ + 1]
  /\ UNCHANGED <<pc, attempt, timers, thenState, schemas, paths>>
  /\ UNCHANGED reqVars

\* a catalog query of the next object (or the list query before it) throws
DiscoverFail(c) ==
  /\ MicrotasksDrained
  /\ pc[c] = "discovering"
  /\ pos[c] <= Len(Objects(c))
  /\ CatchAndRetry(c)
  /\ UNCHANGED <<attempt, pos, openApiSchemas, routes, schemas, paths>>
  /\ UNCHANGED reqVars

\* the loops are over: the advanced route and fragment, the return, and
\* components.schemas = { ...components.schemas, ...schemas }
FinishSetup(c) ==
  /\ MicrotasksDrained
  /\ pc[c] = "discovering"
  /\ pos[c] = Len(Objects(c)) + 1
  /\ LET ep == EndpointOf(c)
         adv == Connections[c].advanced
         out == IF adv
                THEN Put(openApiSchemas[c], FragmentKey(ep, <<"advanced">>),
                         AdvancedFragment)
                ELSE openApiSchemas[c]
     IN  /\ routes' = IF adv THEN routes (+) SetToBag(registerAdvancedRoute(ep))
                             ELSE routes
         /\ openApiSchemas' = [openApiSchemas EXCEPT ![c] = out]
         /\ schemas' = Merge(schemas, out)
  /\ pc' = [pc EXCEPT ![c] = "done"]
  /\ SettleFirst(c)
  /\ UNCHANGED <<attempt, pos, timers, paths>>
  /\ UNCHANGED reqVars

\* a setTimeout callback runs: connectAndSetupWithRetry(app, components, c, attempt + 1)
TimerFire(c) ==
  /\ MicrotasksDrained
  /\ timers[c] # <<>>
  /\ attempt[c] < MaxRetries
  /\ attempt' = [attempt EXCEPT ![c] = Head(timers[c]).attempt]
  /\ timers' = [timers EXCEPT ![c] = Tail(@)]
  /\ pc' = [pc EXCEPT ![c] = "connecting"]
  /\ UNCHANGED <<pos, openApiSchemas, thenState, routes, schemas, paths>>
  /\ UNCHANGED reqVars

\* connectAndSetupWithRetry(app, components, c).then(() => buildPathsFromComponents())
ThenRebuild(c) ==
  /\ thenState[c] = "queued"
  /\ thenState' = [thenState EXCEPT ![c] = "ran"]
  /\ paths' = buildPathsFromComponents(schemas)
  /\ UNCHANGED <<pc, attempt, pos, openApiSchemas, timers, routes, schemas>>
  /\ UNCHANGED reqVars

LifeNext ==
  \E c \in Conns :
    \/ ConnectOk(c)
    \/ ConnectFail(c)
    \/ DiscoverObject(c)
    \/ DiscoverFail(c)
    \/ FinishSetup(c)
    \/ TimerFire(c)
    \/ ThenRebuild(c)

(***************************************************************************)
(* Part II.  Values, strings and the type mapper.                          *)
(***************************************************************************)
Range(f) == {f[i] : i \in DOMAIN f}

Digits == <<"1", "2", "3", "4", "5", "6", "7", "8", "9">>

ValStr(n) == Digits[n]

\* the values of columns, of key parameters and of body fields
Vals == {ValStr(n) : n \in 1..MaxVal}

UpperChars ==
  <<"A", "B", "C", "D", "E", "F", "G", "H", "I", "J", "K", "L", "M",
    "N", "O", "P", "Q", "R", "S", "T", "U", "V", "W", "X", "Y", "Z">>

LowerChars ==
  <<"a", "b", "c", "d", "e", "f", "g", "h", "i", "j", "k", "l", "m",
    "n", "o", "p", "q", "r", "s", "t", "u", "v", "w", "x", "y", "z">>

\* String.prototype.toLowerCase
toLowerCase(t) ==
  [i \in DOMAIN t |->
     IF \E j \in DOMAIN UpperChars : UpperChars[j] = t[i]
     THEN LowerChars[CHOOSE j \in DOMAIN UpperChars : UpperChars[j] = t[i]]
     ELSE t[i]]

\* String.prototype.includes
includes(t, sub) ==
  \E i \in 0..(Len(t) - Len(sub)) : SubSeq(t, i + 1, i + Len(sub)) = sub

SqlType(name, a, b) == [name |-> name, a |-> a, b |-> b]

\* col.DATA_TYPE.toLowerCase() throws a TypeError when col has no DATA_TYPE
MapperThrows(col) == col.DATA_TYPE = Undefined

mapSqlTypeToMssqlType(col) ==
  LET t == toLowerCase(col.DATA_TYPE)
  IN  IF includes(t, Ty_char) \/ t = Ty_text \/ t = Ty_ntext
      THEN IF col.CHARACTER_MAXIMUM_LENGTH > 0
           THEN SqlType("NVarChar", col.CHARACTER_MAXIMUM_LENGTH, 0)
           ELSE SqlType("NVarChar", SqlMax, 0)
      ELSE IF includes(t, Ty_int) THEN SqlType("Int", 0, 0)
      ELSE IF t = Ty_bigint THEN SqlType("BigInt", 0, 0)
      ELSE IF t = Ty_bit THEN SqlType("Bit", 0, 0)
      ELSE IF includes(t, Ty_decimal) \/ t = Ty_numeric THEN SqlType("Decimal", 18, 4)
      ELSE IF includes(t, Ty_float) \/ t = Ty_real THEN SqlType("Float", 0, 0)
      ELSE IF includes(t, Ty_date) \/ includes(t, Ty_time) THEN SqlType("DateTime", 0, 0)
      ELSE IF t = Ty_uniqueidentifier THEN SqlType("NVarChar", 50, 0)
      ELSE SqlType("NVarChar", SqlMax, 0)

(***************************************************************************)
(* tableMeta, request bodies, statements and responses.                    *)
(***************************************************************************)
ColumnSeq(meta) == [i \in DOMAIN meta.columns |-> meta.columns[i].COLUMN_NAME]

ColumnNames(meta) == Range(ColumnSeq(meta))

EmptyObject ==
  [COLUMN_NAME |-> NULL, DATA_TYPE |-> Undefined, CHARACTER_MAXIMUM_LENGTH |-> 0]

\* tableMeta.columns.find(c => c.COLUMN_NAME === name) || {}
FindColumn(meta, name) ==
  IF \E i \in DOMAIN meta.columns : meta.columns[i].COLUMN_NAME = name
  THEN meta.columns[CHOOSE i \in DOMAIN meta.columns :
                      /\ meta.columns[i].COLUMN_NAME = name
                      /\ \A j \in 1..(i - 1) : meta.columns[j].COLUMN_NAME # name]
  ELSE EmptyObject

\* a JSON request body: some keys (columns and one key that is no column),
\* each with a value
Bodies(meta) ==
  UNION {[K -> Vals] : K \in SUBSET (ColumnNames(meta) \cup {"bogus"})}

\* request.input(name, type, value)
Input(params, name, type, value) == Put(params, name, [type |-> type, value |-> value])

\* the inputs of the loop `for (const col of tableMeta.columns)` over names
InputColumns(meta, names, body) ==
  [n \in Range(names) |->
     [type |-> mapSqlTypeToMssqlType(FindColumn(meta, n)), value |-> body[n]]]

Statement(kind, strategy, cols, sets, where, params) ==
  [kind |-> kind, strategy |-> strategy, cols |-> cols, sets |-> sets,
   where |-> where, orderCol |-> NULL, orderDir |-> NULL, paging |-> "none",
   params |-> params]

NoStatement == Statement("none", NULL, <<>>, <<>>, <<>>, EmptyMap)

Body(tag, row) == [tag |-> tag, row |-> row]

NoBody == Body("none", EmptyMap)

\* res.status(...).json({ error: message })
ErrorJson(message) == Body("error", [error |-> message])

\* err.message of the error the driver raises when the database fails a
\* statement, and of the TypeError a handler raises itself
DbErrorMessage == "database error message"
TypeErrorMessage == "Cannot read properties of undefined (reading 'toLowerCase')"

\* catch (err) {} that answers as if the statement had returned no rows
CaughtAsEmptyAnswer(message) == [status |-> 200, out |-> Body("recordset", EmptyMap)]

\* catch (err) { res.status(500).json({ error: err.message }) }
Caught(message) == [status |-> 500, out |-> ErrorJson(message)]

\* what a handler did: the statement it sent (sent: request.query was
\* called; fail: the server or the connection failed it), the rows the key
\* matched before it, the rows it changed or read, and the response
Handled(op, key, body, stmt, sent, fail, matched, affected, status, out) ==
  [op |-> op, key |-> key, body |-> body,
   query |-> [filters |-> EmptyMap, order |-> [present |-> FALSE, parts |-> <<>>],
              limit |-> [present |-> FALSE, text |-> <<>>],
              offset |-> [present |-> FALSE, text |-> <<>>]],
   stmt |-> stmt, sent |-> sent, fail |-> fail, matched |-> matched, affected |-> affected, status |-> status,
   out |-> out]

NoRequest == Handled("none", NULL, EmptyMap, NoStatement, FALSE, FALSE, 0, 0, 0, NoBody)

(***************************************************************************)
(* The database: the statements' effect on the table's rows.               *)
(***************************************************************************)
\* WHERE [col] = @col
Matching(rows, col, v) == {r \in rows : r[col] = v}

PkUnique(meta, rows) ==
  \A r1, r2 \in rows : (\A k \in Range(meta.pk) : r1[k] = r2[k]) => r1 = r2

DbResult(error, recordset, rows, idn, affected) ==
  [error |-> error, recordset |-> recordset, db |-> rows, ident |-> idn,
   affected |-> affected]

DbSelect(rows, idn, col, v, fail) ==
  IF fail THEN DbResult(TRUE, {}, rows, idn, 0)
  ELSE DbResult(FALSE, Matching(rows, col, v), rows, idn, 0)

\* INSERT of the body's columns: the identity column is generated, the other
\* columns left out are NULL; the batch fails on an empty column list, an
\* explicit identity value, a NULL key column or a duplicate key
DbInsert(meta, rows, idn, cols, body, strategy, fail) ==
  LET row == [c \in ColumnNames(meta) |->
                IF c \in Range(cols) THEN body[c]
                ELSE IF c = meta.identity THEN ValStr(idn + 1) ELSE NULL]
      bad == \/ fail
             \/ cols = <<>>
             \/ meta.identity \in Range(cols)
             \/ \E k \in Range(meta.pk) : row[k] = NULL
             \/ \E r \in rows : \A k \in Range(meta.pk) : r[k] = row[k]
      rows2 == rows \cup {row}
      rs == CASE strategy = "pk" -> Matching(rows2, meta.pk[1], body[meta.pk[1]])
              [] strategy = "identity" -> Matching(rows2, meta.identity, ValStr(idn + 1))
              [] OTHER -> {row}
  IN  IF bad THEN DbResult(TRUE, {}, rows, idn, 0)
      ELSE DbResult(FALSE, rs, rows2,
                    IF meta.identity = NULL THEN idn ELSE idn + 1, 1)

\* UPDATE ... SET sets WHERE [pk] = @pk: the batch fails on an empty SET
\* list, when it would duplicate a key or when it sets the identity column
DbUpdate(meta, rows, idn, pk, key, sets, body, fail) ==
  LET matched == Matching(rows, pk, key)
      updated == {[c \in DOMAIN r |-> IF c \in Range(sets) THEN body[c] ELSE r[c]] :
                    r \in matched}
      rows2 == (rows \ matched) \cup updated
      bad == \/ fail
             \/ sets = <<>>
             \/ meta.identity \in Range(sets)
             \/ Cardinality(rows2) < Cardinality(rows)
             \/ ~PkUnique(meta, rows2)
  IN  IF bad THEN DbResult(TRUE, {}, rows, idn, 0)
      ELSE DbResult(FALSE, Matching(rows2, pk, key), rows2, idn, Cardinality(matched))

\* DELETE ... WHERE [pk] = @pk
DbDelete(rows, idn, pk, key, fail) ==
  LET matched == Matching(rows, pk, key)
  IN  IF fail THEN DbResult(TRUE, {}, rows, idn, 0)
      ELSE DbResult(FALSE, matched, rows \ matched, idn, Cardinality(matched))

(***************************************************************************)
(* The handlers registerRoutes registers for tableMeta.                    *)
(***************************************************************************)
\* a column list taken from the body's keys, known column or not
BodyKeys(meta, body) ==
  LET InBody(c) == c \in DOMAIN body
  IN  SelectSeq(ColumnSeq(meta) \o <<"bogus">>, InBody)

\* the columns of the loop `for (const col of tableMeta.columns)` that pass
\* `req.body[col.COLUMN_NAME] !== undefined`
BodyColumns(meta, body) ==
  LET InBody(c) == c \in DOMAIN body
  IN  SelectSeq(ColumnSeq(meta), InBody)

\* PUT: `if (col.COLUMN_NAME === pk) continue`
UpdateSets(meta, pk, body) ==
  LET NotKey(c) == c # pk
  IN  SelectSeq(BodyColumns(meta, body), NotKey)

\* a handler without the check of the SET list
NeverRejected(sets) == FALSE

\* if (sets.length === 0) return res.status(400)
NoUpdatableFields(sets) == Len(sets) = 0

\* a POST that looks for the key in the body before it looks for an identity
CreateStrategyKeyFirst(meta, body) ==
  IF meta.hasTriggers
  THEN IF Len(meta.pk) > 0 /\ meta.pk[1] \in DOMAIN body THEN "pk"
       ELSE IF meta.identity # NULL THEN "identity"
       ELSE "staging"
  ELSE "direct"

\* POST: which statement shape is synthesized
CreateStrategy(meta, body) ==
  IF meta.hasTriggers
  THEN IF meta.identity # NULL THEN "identity"
       ELSE IF Len(meta.pk) > 0 /\ meta.pk[1] \in DOMAIN body THEN "pk"
       ELSE "staging"
  ELSE "direct"

\* a PUT that captures the row through the staging table, as DELETE does
UpdateStrategyStaging(meta) == IF meta.hasTriggers THEN "staging" ELSE "direct"

\* PUT: UPDATE; SELECT ... WHERE [pk] = @pk in one batch, or UPDATE ... OUTPUT
UpdateStrategy(meta) == IF meta.hasTriggers THEN "reselect" ELSE "direct"

\* DELETE: OUTPUT deleted.* INTO #out; SELECT * FROM #out, or DELETE ... OUTPUT
DeleteStrategy(meta) == IF meta.hasTriggers THEN "staging" ELSE "direct"

\* await request.query(sqlText), then the response: 500 from the catch
\* block, the empty answer when the last recordset is empty, else out[0]
Reply(op, key, body, stmt, fail, matched, res, okStatus, emptyStatus, emptyBody) ==
  /\ db' = res.db
  /\ ident' = res.ident
  /\ IF res.error
     THEN last' = Handled(op, key, body, stmt, TRUE, fail, matched, 0,
                          Caught(DbErrorMessage).status, Caught(DbErrorMessage).out)
     ELSE IF res.recordset = {}
     THEN last' = Handled(op, key, body, stmt, TRUE, fail, matched, res.affected,
                          emptyStatus, emptyBody)
     ELSE \E row \in res.recordset :
            last' = Handled(op, key, body, stmt, TRUE, fail, matched, res.affected,
                            okStatus, Body("row", row))

\* the handler throws before request.query, or answers without calling it
ReplyWithoutQuery(op, key, body, status, out) ==
  /\ last' = Handled(op, key, body, NoStatement, FALSE, FALSE, 0, 0, status, out)
  /\ UNCHANGED <<db, ident>>

Registered(method, byKey) ==
  /\ HasKeyRoutes(tableMeta)
  /\ Route(endpoint, "t", tableMeta.table, method, byKey,
           IF byKey THEN tableMeta.pk[1] ELSE NULL) \in BagToSet(routes)

\* the statements the handlers by key and the create handler build
GetStatement(meta, key) ==
  LET pk == meta.pk[1]
  IN  Statement("select", "plain", <<>>, <<>>, <<pk>>,
                Input(EmptyMap, pk, mapSqlTypeToMssqlType(FindColumn(meta, pk)), key))

CreateStatement(meta, body) ==
  LET cols == BodyColumns(meta, body)
      strategy == CreateStrategy(meta, body)
      where == CASE strategy = "identity" -> <<meta.identity>>
                 [] strategy = "pk" -> <<meta.pk[1]>>
                 [] OTHER -> <<>>
  IN  Statement("insert", strategy, cols, <<>>, where, InputColumns(meta, cols, body))

UpdateStatement(meta, key, body) ==
  LET pk == meta.pk[1]
      sets == UpdateSets(meta, pk, body)
  IN  Statement("update", UpdateStrategy(meta), <<>>, sets, <<pk>>,
                Input(InputColumns(meta, sets, body), pk,
                      mapSqlTypeToMssqlType(FindColumn(meta, pk)), key))

DeleteStatement(meta, key) ==
  LET pk == meta.pk[1]
  IN  Statement("delete", DeleteStrategy(meta), <<>>, <<>>, <<pk>>,
                Input(EmptyMap, pk, mapSqlTypeToMssqlType(FindColumn(meta, pk)), key))

\* app.get(`${base}/:${pk}`)
GetByPk ==
  /\ Registered("GET", TRUE)
  /\ \E key \in Vals, fail \in BOOLEAN :
       LET pk == tableMeta.pk[1]
           col == FindColumn(tableMeta, pk)
           stmt == GetStatement(tableMeta, key)
           res == DbSelect(db, ident, pk, key, fail)
           matched == Cardinality(Matching(db, pk, key))
       IN  IF MapperThrows(col)
           THEN ReplyWithoutQuery("get", key, EmptyMap, Caught(TypeErrorMessage).status,
                                  Caught(TypeErrorMessage).out)
           ELSE Reply("get", key, EmptyMap, stmt, fail, matched,
                      [res EXCEPT !.affected = Cardinality(res.recordset)],
                      200, 404, NoBody)
  /\ UNCHANGED <<lifeVars, tableMeta, endpoint, request>>

\* app.post(base)
Create ==
  /\ Registered("POST", FALSE)
  /\ tableMeta.identity # NULL => ident < MaxVal
  /\ \E body \in Bodies(tableMeta), fail \in BOOLEAN :
       LET cols == BodyColumns(tableMeta, body)
           strategy == CreateStrategy(tableMeta, body)
           stmt == CreateStatement(tableMeta, body)
           res == DbInsert(tableMeta, db, ident, cols, body, strategy, fail)
       IN  Reply("create", NULL, body, stmt, fail, 0, res, 201, 201,
                 Body("object", EmptyMap))
  /\ UNCHANGED <<lifeVars, tableMeta, endpoint, request>>

\* app.put(`${base}/:${pk}`)
Update ==
  /\ Registered("PUT", TRUE)
  /\ \E key \in Vals, body \in Bodies(tableMeta), fail \in BOOLEAN :
       LET pk == tableMeta.pk[1]
           sets == UpdateSets(tableMeta, pk, body)
           pkCol == FindColumn(tableMeta, pk)
           stmt == UpdateStatement(tableMeta, key, body)
           res == DbUpdate(tableMeta, db, ident, pk, key, sets, body, fail)
           matched == Cardinality(Matching(db, pk, key))
       IN  IF MapperThrows(pkCol)
           THEN ReplyWithoutQuery("update", key, body, Caught(TypeErrorMessage).status,
                                  Caught(TypeErrorMessage).out)
           ELSE IF NoUpdatableFields(sets)
           THEN ReplyWithoutQuery("update", key, body, 400,
                                  ErrorJson("No updatable fields provided"))
           ELSE Reply("update", key, body, stmt, fail, matched, res, 200, 404, NoBody)
  /\ UNCHANGED <<lifeVars, tableMeta, endpoint, request>>

\* app.delete(`${base}/:${pk}`)
Delete ==
  /\ Registered("DELETE", TRUE)
  /\ \E key \in Vals, fail \in BOOLEAN :
       LET pk == tableMeta.pk[1]
           pkCol == FindColumn(tableMeta, pk)
           stmt == DeleteStatement(tableMeta, key)
           res == DbDelete(db, ident, pk, key, fail)
           matched == Cardinality(Matching(db, pk, key))
       IN  IF MapperThrows(pkCol)
           THEN ReplyWithoutQuery("delete", key, EmptyMap, Caught(TypeErrorMessage).status,
                                  Caught(TypeErrorMessage).out)
           ELSE Reply("delete", key, EmptyMap, stmt, fail, matched, res, 200, 404, NoBody)
  /\ UNCHANGED <<lifeVars, tableMeta, endpoint, request>>

(***************************************************************************)
(* The specifications.                                                     *)
(***************************************************************************)
\* no table is under request while the connections are set up
Idle ==
  /\ tableMeta = TableMeta(TblOrders, <<"id">>)
  /\ endpoint = EndpointOf(1)
  /\ db = {}
  /\ ident = 0
  /\ request = [pending |-> FALSE, route |-> "none", query |-> NoRequest.query]
  /\ last = NoRequest

Init == LifeInit /\ Idle

Next == LifeNext

Spec == Init /\ [][Next]_vars

\* for each object of a connection, the order getPrimaryKey returned its rows in
PkChoice(c) ==
  {f \in [DOMAIN Objects(c) ->
            UNION {PkOrders(Objects(c)[i].pkRows) : i \in DOMAIN Objects(c)}] :
     \A i \in DOMAIN Objects(c) : f[i] \in PkOrders(Objects(c)[i].pkRows)}

\* what setupDynamicRoutes returns for connection c
RECURSIVE FragmentsOf(_, _, _)
FragmentsOf(c, f, n) ==
  IF n = 0
  THEN IF Connections[c].advanced
       THEN Put(EmptyMap, FragmentKey(EndpointOf(c), <<"advanced">>), AdvancedFragment)
       ELSE EmptyMap
  ELSE Put(FragmentsOf(c, f, n - 1),
           FragmentKey(EndpointOf(c), Objects(c)[n].name),
           FragmentOf(Objects(c)[n], f[n]))

RoutesOfSetup(c, f) ==
  UNION {RoutesFor(Objects(c)[i], f[i], EndpointOf(c)) : i \in DOMAIN Objects(c)}
  \cup (IF Connections[c].advanced THEN registerAdvancedRoute(EndpointOf(c)) ELSE {})

RECURSIVE MergedUpTo(_, _)
MergedUpTo(ch, n) ==
  IF n = 0 THEN EmptyMap
  ELSE Merge(MergedUpTo(ch, n - 1), FragmentsOf(n, ch[n], Len(Objects(n))))

\* every connection connected and was set up at its first attempt, its
\* primary keys read in the orders ch
Settled(ch) ==
  /\ pc = [c \in Conns |-> "done"]
  /\ attempt = [c \in Conns |-> 0]
  /\ pos = [c \in Conns |-> Len(Objects(c)) + 1]
  /\ openApiSchemas = [c \in Conns |-> FragmentsOf(c, ch[c], Len(Objects(c)))]
  /\ timers = [c \in Conns |-> <<>>]
  /\ thenState = [c \in Conns |-> "ran"]
  /\ routes = SetToBag(UNION {RoutesOfSetup(c, ch[c]) : c \in Conns})
  /\ schemas = MergedUpTo(ch, Len(Connections))
  /\ paths = buildPathsFromComponents(schemas)

\* the server is set up and serves the requests on one discovered table or view
InitServing ==
  \E ch \in [Conns -> UNION {PkChoice(c) : c \in Conns}] :
    /\ \A c \in Conns : ch[c] \in PkChoice(c)
    /\ Settled(ch)
    /\ \E c \in Conns : \E i \in DOMAIN Objects(c) :
         /\ Objects(c)[i].kind \in {"t", "v"}
         /\ tableMeta = TableMeta(Objects(c)[i], ch[c][i])
         /\ endpoint = EndpointOf(c)
    /\ db = {}
    /\ ident = 0
    /\ last = NoRequest

InitReq == InitServing /\ request = [pending |-> FALSE, route |-> "none", query |-> NoRequest.query]

NextReq == GetByPk \/ Create \/ Update \/ Delete

SpecReq == InitReq /\ [][NextReq]_vars

(***************************************************************************)
(* The list handler: app.get(base).                                        *)
(***************************************************************************)
DigitChars == <<"0", "1", "2", "3", "4", "5", "6", "7", "8", "9">>

IsDigit(ch) == \E i \in DOMAIN DigitChars : DigitChars[i] = ch

DigitVal(ch) == (CHOOSE i \in DOMAIN DigitChars : DigitChars[i] = ch) - 1

RECURSIVE TrimStart(_)
TrimStart(s) == IF s # <<>> /\ Head(s) = " " THEN TrimStart(Tail(s)) ELSE s

RECURSIVE DigitPrefix(_)
DigitPrefix(s) ==
  IF s # <<>> /\ IsDigit(Head(s)) THEN <<Head(s)>> \o DigitPrefix(Tail(s)) ELSE <<>>

RECURSIVE DigitsValue(_)
DigitsValue(d) ==
  IF d = <<>> THEN 0
  ELSE 10 * DigitsValue(SubSeq(d, 1, Len(d) - 1)) + DigitVal(d[Len(d)])

\* a query parameter: absent (undefined) or the text given
Absent == [present |-> FALSE, text |-> <<>>]

Given(text) == [present |-> TRUE, text |-> text]

NaN == [nan |-> TRUE, val |-> 0]

\* parseInt(v, 10): leading white space, an optional sign, then the longest
\* prefix of decimal digits; NaN when there is none (undefined included)
parseInt(v) ==
  IF ~v.present THEN NaN
  ELSE LET t == TrimStart(v.text)
           signed == t # <<>> /\ Head(t) \in {"-", "+"}
           d == DigitPrefix(IF signed THEN Tail(t) ELSE t)
       IN  IF d = <<>> THEN NaN
           ELSE [nan |-> FALSE,
                 val |-> IF signed /\ Head(t) = "-" THEN 0 - DigitsValue(d)
                         ELSE DigitsValue(d)]

\* Number.isFinite(parseInt(x, 10)) ? parseInt(x, 10) : dflt
ParsedOr(v, dflt) == IF parseInt(v).nan THEN dflt ELSE parseInt(v).val

\* String.prototype.toUpperCase on the direction words of the model
toUpperCase(w) ==
  CASE w \in {"desc", "DESC"} -> "DESC"
    [] w \in {"asc", "ASC"} -> "ASC"
    [] w = "down" -> "DOWN"
    [] OTHER -> w

\* the order parameter after String(q.order).split('.'): absent, or the
\* words between the dots ("" splits into the one word "")
OrderParsed(order) ==
  IF order.present /\ order.parts # <<"">>
  THEN [col |-> order.parts[1],
        dir |-> IF Len(order.parts) > 1 /\ order.parts[2] # ""
                   /\ toUpperCase(order.parts[2]) = "DESC"
                THEN "DESC" ELSE "ASC"]
  ELSE [col |-> "", dir |-> "ASC"]

\* an ORDER BY on the column the request names, known or not
OrderByAsGiven(meta, order) == OrderParsed(order)

\* a fallback to the first column whatever the key
OrderByFirstColumn(meta, order) ==
  LET o == OrderParsed(order)
  IN  IF o.col = "" \/ o.col \notin ColumnNames(meta)
      THEN [col |-> meta.columns[1].COLUMN_NAME, dir |-> "ASC"]
      ELSE o

\* if (!orderCol || !columnNames.has(orderCol)): pkColName || columns[0]
OrderBy(meta, order) ==
  LET o == OrderParsed(order)
  IN  IF o.col = "" \/ o.col \notin ColumnNames(meta)
      THEN [col |-> IF Len(meta.pk) > 0 THEN meta.pk[1]
                    ELSE meta.columns[1].COLUMN_NAME,
            dir |-> "ASC"]
      ELSE o

\* a limit of 0 taken for "no limit"
PagingPositiveLimit(limit, offset) ==
  IF limit <= 0 /\ offset = 0 THEN "none"
  ELSE IF limit <= 0 /\ offset >= 0 THEN "offset"
  ELSE "offset-fetch"

\* the three shapes of the statement's tail
Paging(limit, offset) ==
  IF limit < 0 /\ offset = 0 THEN "none"
  ELSE IF limit < 0 /\ offset >= 0 THEN "offset"
  ELSE "offset-fetch"

SqlInt == SqlType("Int", 0, 0)

\* request.input('offset', sql.Int, offset); request.input('limit', sql.Int, limit)
PagingInputs(params, limit, offset) ==
  CASE Paging(limit, offset) = "none" -> params
    [] Paging(limit, offset) = "offset" -> Input(params, "offset", SqlInt, offset)
    [] OTHER -> Input(Input(params, "offset", SqlInt, offset), "limit", SqlInt, limit)

\* the words a request may give for a direction, and the texts for a number
DirWords == {"asc", "desc", "DESC", "down", ""}

NumberTexts ==
  {<<"0">>, <<"2">>, <<"1", "0">>, <<"-", "3">>, <<"2", "x">>,
   <<"1", ".", "5">>, <<"x", "2">>, <<>>}

OrderTexts(meta) ==
  LET names == ColumnNames(meta) \cup {"nope", ""}
  IN  {[present |-> TRUE, parts |-> <<n>>] : n \in names}
      \cup {[present |-> TRUE, parts |-> <<n, w>>] : n \in names, w \in DirWords}
      \cup {[present |-> FALSE, parts |-> <<>>]}

ListRequest(filters, order, limit, offset) ==
  [filters |-> filters, order |-> order, limit |-> limit, offset |-> offset]

\* the query strings a list request on the object may carry
ListRequests(meta) ==
  {ListRequest(filters, order, lim, off) :
     filters \in UNION {[F -> Vals] : F \in SUBSET ColumnNames(meta)},
     order \in OrderTexts(meta),
     lim \in {Absent} \cup {Given(t) : t \in NumberTexts},
     off \in {Absent} \cup {Given(t) : t \in NumberTexts}}

\* the statement the list handler builds for the query string q
ListStatement(meta, q) ==
  LET where == BodyColumns(meta, q.filters)
      ob == OrderBy(meta, q.order)
      limit == ParsedOr(q.limit, -1)
      parsed == ParsedOr(q.offset, 0)
      offset == IF parsed < 0 THEN 0 ELSE parsed
      params == PagingInputs(InputColumns(meta, where, q.filters), limit, offset)
  IN  [Statement("select", "list", <<>>, <<>>, where, params)
         EXCEPT !.orderCol = ob.col, !.orderDir = ob.dir,
                !.paging = Paging(limit, offset)]

\* app.get(base)
List ==
  /\ Route(endpoint, IF tableMeta.isView THEN "v" ELSE "t", tableMeta.table,
           "GET", FALSE, NULL) \in BagToSet(routes)
  /\ request.pending /\ request.route = "list"
  /\ \E fail \in BOOLEAN :
       LET q == request.query
           stmt == ListStatement(tableMeta, q)
       IN  last' = [Handled("list", NULL, EmptyMap, stmt, TRUE, fail, 0, 0,
                            IF fail THEN Caught(DbErrorMessage).status ELSE 200,
                            IF fail THEN Caught(DbErrorMessage).out
                            ELSE Body("recordset", EmptyMap))
                      EXCEPT !.query = q]
  /\ request' = [request EXCEPT !.pending = FALSE]
  /\ UNCHANGED <<lifeVars, tableMeta, endpoint, db, ident>>

InitList ==
  /\ InitServing
  /\ request \in [pending : {TRUE}, route : {"list"}, query : ListRequests(tableMeta)]

NextList == List

SpecList == InitList /\ [][NextList]_vars

(***************************************************************************)
(* The list handler on req.query as it arrives: one object of keys, in     *)
(* which the handler looks up the column names and order, limit, offset.   *)
(***************************************************************************)
\* a table whose columns have the names of the handler's own query keys
TblQueue ==
  [kind |-> "t", schema |-> "dbo", name |-> <<"queue">>,
   columns |-> <<Col("id", Ty_int, 0), Col("order", Ty_int, 0),
                 Col("limit", Ty_int, 0), Col("offset", Ty_int, 0)>>,
   pkRows |-> {"id"}, hasTriggers |-> FALSE, identity |-> NULL, ftype |-> NULL]

ReservedKeys == {"order", "limit", "offset"}

\* the values a key may have in the query string: a sort (split at '.'),
\* the text of a number, or a column value
QueryValues(k) ==
  CASE k = "order" -> {<<"id">>, <<"order", "desc">>, <<"nope">>}
    [] k = "limit" -> {<<"2">>, <<"-", "3">>}
    [] k = "offset" -> {<<"0">>, <<"2">>}
    [] OTHER -> {<<"1">>}

\* req.query: some of the keys, each with a value
QueryStrings(meta) ==
  LET keys == ColumnNames(meta) \cup ReservedKeys
  IN  {raw \in UNION {[K -> UNION {QueryValues(k) : k \in keys}] : K \in SUBSET keys} :
         \A k \in DOMAIN raw : raw[k] \in QueryValues(k)}

\* req.query[col.COLUMN_NAME], q.order, q.limit and q.offset
ListRequestOf(meta, raw) ==
  ListRequest([k \in DOMAIN raw \cap ColumnNames(meta) |-> raw[k]],
              IF "order" \in DOMAIN raw THEN [present |-> TRUE, parts |-> raw["order"]]
              ELSE [present |-> FALSE, parts |-> <<>>],
              IF "limit" \in DOMAIN raw THEN Given(raw["limit"]) ELSE Absent,
              IF "offset" \in DOMAIN raw THEN Given(raw["offset"]) ELSE Absent)

\* the calls of request.input the list handler makes, in their order: one
\* for each column filter, then offset and limit
ListInputs(meta, q) ==
  LET where == BodyColumns(meta, q.filters)
      limit == ParsedOr(q.limit, -1)
      parsed == ParsedOr(q.offset, 0)
      offset == IF parsed < 0 THEN 0 ELSE parsed
  IN  [i \in DOMAIN where |-> where[i]]
      \o (CASE Paging(limit, offset) = "none" -> <<>>
            [] Paging(limit, offset) = "offset" -> <<"offset">>
            [] OTHER -> <<"offset", "limit">>)

\* some name is given to request.input twice
BoundTwice(inputs) == \E i, j \in DOMAIN inputs : i # j /\ inputs[i] = inputs[j]

DuplicateMessage == "The parameter name has already been declared. Parameter names must be unique"

\* app.get(base) on req.query.  A second request.input of a name replaces
\* the first value or raises, depending on the version of the mssql library.
ListByQuery ==
  /\ request.pending /\ request.route = "query"
  /\ \E fail \in BOOLEAN, raises \in BOOLEAN :
       LET q == ListRequestOf(tableMeta, request.query)
           stmt == ListStatement(tableMeta, q)
           inputs == ListInputs(tableMeta, q)
           answer == IF raises /\ BoundTwice(inputs) THEN Caught(DuplicateMessage)
                     ELSE IF fail THEN Caught(DbErrorMessage)
                     ELSE [status |-> 200, out |-> Body("recordset", EmptyMap)]
       IN  last' = [op |-> "list", raw |-> request.query, stmt |-> stmt,
                    inputs |-> inputs, sent |-> ~(raises /\ BoundTwice(inputs)),
                    status |-> answer.status, out |-> answer.out]
  /\ request' = [request EXCEPT !.pending = FALSE]
  /\ UNCHANGED <<lifeVars, tableMeta, endpoint, db, ident>>

InitQuery ==
  /\ LifeInit
  /\ tableMeta \in {TableMeta(TblOrders, <<"id">>), TableMeta(ViewOpen, <<>>),
                    TableMeta(TblQueue, <<"id">>)}
  /\ endpoint = EndpointOf(1)
  /\ db = {}
  /\ ident = 0
  /\ request \in [pending : {TRUE}, route : {"query"}, query : QueryStrings(tableMeta)]
  /\ last = NoRequest

NextQuery == ListByQuery

SpecQuery == InitQuery /\ [][NextQuery]_vars

(***************************************************************************)
(* The SQL text of a statement, and two requests that differ in their      *)
(* values only, handled by the same handler.                               *)
(***************************************************************************)
\* the text sent to request.query: the statement without the values bound
\* to its parameters (names: the @name references of the text)
SqlText(stmt) ==
  [kind |-> stmt.kind, strategy |-> stmt.strategy, cols |-> stmt.cols,
   sets |-> stmt.sets, where |-> stmt.where, orderCol |-> stmt.orderCol,
   orderDir |-> stmt.orderDir, paging |-> stmt.paging, names |-> DOMAIN stmt.params]

\* a request to one of the five handlers on the object
TableRequest(op, key, body, query) ==
  [op |-> op, key |-> key, body |-> body, query |-> query]

\* the statement the handler of the request sends, if it sends one
StatementOf(meta, r) ==
  CASE r.op = "list" -> ListStatement(meta, r.query)
    [] r.op = "get" -> GetStatement(meta, r.key)
    [] r.op = "create" -> CreateStatement(meta, r.body)
    [] r.op = "update" ->
         IF NoUpdatableFields(UpdateSets(meta, meta.pk[1], r.body)) THEN NoStatement
         ELSE UpdateStatement(meta, r.key, r.body)
    [] r.op = "delete" -> DeleteStatement(meta, r.key)

\* the limit and offset texts and the order parameters of the pairs
PairNumbers == {<<"0">>, <<"2">>, <<"-", "3">>}

PairOrders(meta) ==
  {[present |-> FALSE, parts |-> <<>>],
   [present |-> TRUE, parts |-> <<"nope">>],
   [present |-> TRUE, parts |-> <<meta.columns[1].COLUMN_NAME, "desc">>]}

PairListRequests(meta) ==
  {TableRequest("list", NULL, EmptyMap, ListRequest(filters, order, lim, off)) :
     filters \in UNION {[F -> Vals] : F \in SUBSET ColumnNames(meta)},
     order \in PairOrders(meta),
     lim \in {Absent} \cup {Given(t) : t \in PairNumbers},
     off \in {Absent} \cup {Given(t) : t \in PairNumbers}}

PairKeyRequests(meta) ==
  {TableRequest(op, key, EmptyMap, NoRequest.query) : op \in {"get", "delete"}, key \in Vals}
  \cup {TableRequest("create", NULL, body, NoRequest.query) : body \in Bodies(meta)}
  \cup {TableRequest("update", key, body, NoRequest.query) :
          key \in Vals, body \in Bodies(meta)}

\* the two requests ask the same handler, give the same keys in body and
\* query string and the same order: they differ in values only
SameKeys(r1, r2) ==
  /\ r1.op = r2.op
  /\ DOMAIN r1.body = DOMAIN r2.body
  /\ DOMAIN r1.query.filters = DOMAIN r2.query.filters
  /\ r1.query.order = r2.query.order
  /\ r1.query.limit.present = r2.query.limit.present
  /\ r1.query.offset.present = r2.query.offset.present

RequestPairs(meta) ==
  LET reqs == PairListRequests(meta)
              \cup (IF HasKeyRoutes(meta) THEN PairKeyRequests(meta) ELSE {})
  IN  {p \in reqs \X reqs : SameKeys(p[1], p[2])}

\* both requests are handled: the statements their handlers send
HandlePair ==
  /\ request.pending /\ request.route = "pair"
  /\ last' = [op |-> "pair", first |-> request.query[1], second |-> request.query[2],
              stmts |-> <<StatementOf(tableMeta, request.query[1]),
                          StatementOf(tableMeta, request.query[2])>>]
  /\ request' = [request EXCEPT !.pending = FALSE]
  /\ UNCHANGED <<lifeVars, tableMeta, endpoint, db, ident>>

InitPair ==
  /\ InitServing
  /\ request \in [pending : {TRUE}, route : {"pair"}, query : RequestPairs(tableMeta)]

NextPair == HandlePair

SpecPair == InitPair /\ [][NextPair]_vars

(***************************************************************************)
(* Discovery by include patterns: bindNameMatchers and the catalog query.  *)
(* Object names and patterns are sequences of one-character strings.       *)
(***************************************************************************)
\* the characters of object names: a letter, a digit, the underscore
NameChars == {"a", "1", "_"}

RECURSIVE TextsUpTo(_, _)
TextsUpTo(chars, n) ==
  IF n = 0 THEN {<<>>}
  ELSE TextsUpTo(chars, n - 1)
       \cup {Append(t, ch) : t \in {u \in TextsUpTo(chars, n - 1) : Len(u) = n - 1},
                             ch \in chars}

ObjectNames == TextsUpTo(NameChars, MaxNameLen) \ {<<>>}

\* T-SQL: s LIKE pat, with % any run of characters and _ any one character
RECURSIVE Like(_, _)
Like(s, pat) ==
  IF pat = <<>> THEN s = <<>>
  ELSE IF Head(pat) = "%"
  THEN Like(s, Tail(pat)) \/ (s # <<>> /\ Like(Tail(s), pat))
  ELSE IF Head(pat) = "_"
  THEN s # <<>> /\ Like(Tail(s), Tail(pat))
  ELSE s # <<>> /\ Head(s) = Head(pat) /\ Like(Tail(s), Tail(pat))

Contains(t, ch) == \E i \in DOMAIN t : t[i] = ch

\* the clause and the bound parameter bindNameMatchers makes of one pattern
NameMatcher(pat) ==
  IF pat # <<>> /\ Head(pat) = "^"
  THEN [op |-> "LIKE", value |-> Tail(pat) \o <<"%">>]
  ELSE IF Contains(pat, "%") \/ Contains(pat, "_")
  THEN [op |-> "LIKE", value |-> pat]
  ELSE [op |-> "=", value |-> pat]

\* the key of the first pattern's parameter
FirstKey(tag, i) == <<tag, 0>>

\* `${tag}${i}`: the key of the parameter of pattern i (counted from 0)
MatcherKey(tag, i) == <<tag, i>>

\* one request.input(key, NVarChar, value) and one clause colExpr op @key
\* for each pattern, in the order of the patterns
bindNameMatchers(patterns, colExpr, tag) ==
  [i \in DOMAIN patterns |->
     [col |-> colExpr, op |-> NameMatcher(patterns[i]).op,
      key |-> MatcherKey(tag, i - 1), value |-> NameMatcher(patterns[i]).value]]

\* the text of a clause: the value is not part of it
ClauseText(c) == [col |-> c.col, op |-> c.op, key |-> c.key]

\* the value a key is bound to: the last input of that key
ParamValue(inputs, key) ==
  LET at == {i \in DOMAIN inputs : inputs[i].key = key}
  IN  inputs[CHOOSE i \in at : \A j \in at : j <= i].value

\* WHERE clause_1 OR ... OR clause_n, evaluated on one catalog row
ClausesHold(clauses, name) ==
  \E i \in DOMAIN clauses :
    IF clauses[i].op = "LIKE" THEN Like(name, ParamValue(clauses, clauses[i].key))
    ELSE name = ParamValue(clauses, clauses[i].key)

\* the four discover*ByInclude: the column matched, the tag of the keys, the
\* relation queried and the type of the objects asked for
DiscoverKinds ==
  [table |-> [col |-> "TABLE_NAME", tag |-> "tbl", from |-> "INFORMATION_SCHEMA.TABLES",
              filter |-> "TABLE_TYPE = @type", type |-> "BASE TABLE"],
   view |-> [col |-> "TABLE_NAME", tag |-> "view", from |-> "INFORMATION_SCHEMA.TABLES",
             filter |-> "TABLE_TYPE = @type", type |-> "VIEW"],
   proc |-> [col |-> "p.name", tag |-> "proc", from |-> "sys.procedures",
             filter |-> "none", type |-> "P"],
   func |-> [col |-> "o.name", tag |-> "func", from |-> "sys.objects",
             filter |-> "o.type IN ('FN','TF','IF')", type |-> "FN"]]

\* an object type of the same relation that the kind does not ask for
OtherType(kind) ==
  IF kind = "table" THEN "VIEW" ELSE IF kind = "view" THEN "BASE TABLE" ELSE "U"

\* the query of discover*ByInclude: its text and its bound parameters
DiscoverStatement(kind, patterns) ==
  LET k == DiscoverKinds[kind]
      clauses == bindNameMatchers(patterns, k.col, k.tag)
  IN  [from |-> k.from, filter |-> k.filter,
       where |-> [i \in DOMAIN clauses |-> ClauseText(clauses[i])],
       inputs |-> (IF k.filter = "TABLE_TYPE = @type"
                   THEN <<[key |-> <<"type">>, value |-> k.type]>> ELSE <<>>)
                  \o [i \in DOMAIN clauses |-> [key |-> clauses[i].key,
                                                value |-> clauses[i].value]]]

\* no pattern: nothing is sent to the database
NoQuery == [from |-> "none", filter |-> "none", where |-> <<>>, inputs |-> <<>>]

\* the type filter of the statement on one row
TypeFilterHolds(stmt, row) ==
  IF stmt.filter = "TABLE_TYPE = @type" THEN row.type = ParamValue(stmt.inputs, <<"type">>)
  ELSE IF stmt.filter = "none" THEN TRUE
  ELSE row.type \in {"FN", "TF", "IF"}

\* the names the statement selects from the rows of its relation
Selected(stmt, rows) ==
  {row.name : row \in {r \in rows : /\ TypeFilterHolds(stmt, r)
                                     /\ \E i \in DOMAIN stmt.where :
                                          IF stmt.where[i].op = "LIKE"
                                          THEN Like(r.name, ParamValue(stmt.inputs, stmt.where[i].key))
                                          ELSE r.name = ParamValue(stmt.inputs, stmt.where[i].key)}}

\* the rows of the relation: the objects of the kind's type and the others
\* (sys.procedures holds procedures only)
CatalogRows(kind, catalog, others) ==
  {[name |-> n, type |-> DiscoverKinds[kind].type] : n \in catalog}
  \cup (IF kind = "proc" THEN {}
        ELSE {[name |-> n, type |-> OtherType(kind)] : n \in others})

\* discoverTablesByInclude and its like: no pattern, no query
discoverByInclude(kind, patterns, rows) ==
  IF Len(patterns) = 0 THEN {}
  ELSE Selected(DiscoverStatement(kind, patterns), rows)

\* the include lists of the model: a plain name, ^prefix, or a LIKE pattern
IncludePatterns ==
  ObjectNames
  \cup {<<"^">> \o t : t \in ObjectNames}
  \cup {<<"a", "%">>}

\* the patterns that follow the first one in the longer include lists
LaterPatterns == {<<"a">>, <<"^", "1">>, <<"a", "_">>}

IncludeLists ==
  {<<>>} \cup {<<p>> : p \in IncludePatterns}
  \cup {<<p, q>> : p \in IncludePatterns, q \in LaterPatterns}
  \cup {<<<<"1">>, <<"^", "a">>, <<"_", "_">>>>}

\* a discovery query to run: the kind, the include list, the names of the
\* kind's objects in the catalog and the names of objects of another type
DiscoveryRequests ==
  [kind : DOMAIN DiscoverKinds,
   patterns : IncludeLists,
   catalog : {C \in SUBSET ObjectNames : Cardinality(C) \in {1, 2}},
   others : {{}, {<<"a">>}}]

Discover ==
  /\ request.pending /\ request.route = "discover"
  /\ LET q == request.query
     IN  last' = [op |-> "discover", kind |-> q.kind, patterns |-> q.patterns,
                  catalog |-> q.catalog, others |-> q.others,
                  stmt |-> IF Len(q.patterns) = 0 THEN NoQuery
                           ELSE DiscoverStatement(q.kind, q.patterns),
                  found |-> discoverByInclude(q.kind, q.patterns,
                                              CatalogRows(q.kind, q.catalog, q.others))]
  /\ request' = [request EXCEPT !.pending = FALSE]
  /\ UNCHANGED <<lifeVars, tableMeta, endpoint, db, ident>>

InitMatch ==
  /\ LifeInit
  /\ tableMeta = TableMeta(TblOrders, <<"id">>)
  /\ endpoint = EndpointOf(1)
  /\ db = {}
  /\ ident = 0
  /\ request \in [pending : {TRUE}, route : {"discover"}, query : DiscoveryRequests]
  /\ last = NoRequest

NextMatch == Discover

SpecMatch == InitMatch /\ [][NextMatch]_vars

(***************************************************************************)
(* The advanced route: substituteTemplate, isReadOnly and the handler of   *)
(* registerAdvancedRoute.  Texts are sequences of one-character strings; a *)
(* base64 string is represented by the text it decodes to.                 *)
(***************************************************************************)
\* the keys of the body
K_data == <<"d", "a", "t", "a">>

K_rowLimit == <<"r", "o", "w", "L", "i", "m", "i", "t">>

K_n == <<"n">>

K_m == <<"m">>

\* JSON values: null, a number, a string
JsonNull == [type |-> "null", text |-> <<>>]

JsonNumber(text) == [type |-> "number", text |-> text]

JsonString(text) == [type |-> "string", text |-> text]

\* String.prototype.toUpperCase
UpperText(t) ==
  [i \in DOMAIN t |->
     IF \E j \in DOMAIN LowerChars : LowerChars[j] = t[i]
     THEN UpperChars[CHOOSE j \in DOMAIN LowerChars : LowerChars[j] = t[i]]
     ELSE t[i]]

\* \s of the regular expression, on the characters of the model
IsSpace(ch) == ch \in {" ", "\n", "\t"}

\* [a-zA-Z0-9_]
IsKeyChar(ch) == ch = "_" \/ IsDigit(ch) \/ ch \in Range(LowerChars) \/ ch \in Range(UpperChars)

RECURSIVE SkipSpaces(_, _)
SkipSpaces(t, i) == IF i <= Len(t) /\ IsSpace(t[i]) THEN SkipSpaces(t, i + 1) ELSE i

RECURSIVE SkipKey(_, _)
SkipKey(t, i) == IF i <= Len(t) /\ IsKeyChar(t[i]) THEN SkipKey(t, i + 1) ELSE i

\* /{{\s*([a-zA-Z0-9_]+)\s*}}/ at the start of t: the key and the length matched
MatchPlaceholder(t) ==
  IF Len(t) >= 2 /\ t[1] = "{" /\ t[2] = "{"
  THEN LET a == SkipSpaces(t, 3)
           b == SkipKey(t, a)
           c == SkipSpaces(t, b)
       IN  IF b > a /\ c + 1 <= Len(t) /\ t[c] = "}" /\ t[c + 1] = "}"
           THEN [ok |-> TRUE, key |-> SubSeq(t, a, b - 1), len |-> c + 1]
           ELSE [ok |-> FALSE, key |-> <<>>, len |-> 0]
  ELSE [ok |-> FALSE, key |-> <<>>, len |-> 0]

\* /^\d+(\.\d+)?$/.test(text)
IsNumericText(t) ==
  LET d == DigitPrefix(t)
      rest == SubSeq(t, Len(d) + 1, Len(t))
  IN  /\ d # <<>>
      /\ \/ rest = <<>>
         \/ /\ Head(rest) = "."
            /\ Len(rest) > 1
            /\ DigitPrefix(Tail(rest)) = Tail(rest)

\* String(v).replace(/'/g, "''")
RECURSIVE EscapeQuotes(_)
EscapeQuotes(t) ==
  IF t = <<>> THEN <<>>
  ELSE (IF Head(t) = "'" THEN <<"'", "'">> ELSE <<Head(t)>>) \o EscapeQuotes(Tail(t))

\* a replacement that leaves the quotes of a string alone
ReplacementRaw(v) == IF v.type = "null" THEN <<"N", "U", "L", "L">> ELSE v.text

\* the replacement of one placeholder by the value v
Replacement(v) ==
  IF v.type = "null" THEN <<"N", "U", "L", "L">>
  ELSE IF v.type = "number" THEN v.text
  ELSE IF IsNumericText(v.text) THEN v.text
  ELSE EscapeQuotes(v.text)

\* substituteTemplate: the text, or the Error thrown for the first
\* placeholder whose key is not in values (vars)
RECURSIVE substituteTemplate(_, _)
substituteTemplate(template, values) ==
  IF template = <<>> THEN [threw |-> FALSE, text |-> <<>>, key |-> <<>>]
  ELSE LET m == MatchPlaceholder(template)
       IN  IF m.ok
           THEN IF m.key \notin DOMAIN values
                THEN [threw |-> TRUE, text |-> <<>>, key |-> m.key]
                ELSE LET rest == substituteTemplate(
                                   SubSeq(template, m.len + 1, Len(template)), values)
                     IN  IF rest.threw THEN rest
                         ELSE [rest EXCEPT !.text = Replacement(values[m.key]) \o @]
           ELSE LET rest == substituteTemplate(Tail(template), values)
                IN  IF rest.threw THEN rest
                    ELSE [rest EXCEPT !.text = <<Head(template)>> \o @]

banned ==
  {<<"I", "N", "S", "E", "R", "T", " ">>,
   <<"U", "P", "D", "A", "T", "E", " ">>,
   <<"D", "E", "L", "E", "T", "E", " ">>,
   <<"M", "E", "R", "G", "E", " ">>,
   <<"A", "L", "T", "E", "R", " ">>,
   <<"D", "R", "O", "P", " ">>,
   <<"C", "R", "E", "A", "T", "E", " ">>,
   <<"T", "R", "U", "N", "C", "A", "T", "E", " ">>,
   <<"E", "X", "E", "C", " ">>,
   <<"E", "X", "E", "C", "U", "T", "E", " ">>,
   <<"G", "R", "A", "N", "T", " ">>,
   <<"R", "E", "V", "O", "K", "E", " ">>,
   <<"U", "S", "E", " ">>,
   <<"B", "E", "G", "I", "N", " ", "T", "R", "A", "N">>,
   <<"C", "O", "M", "M", "I", "T">>,
   <<"R", "O", "L", "L", "B", "A", "C", "K">>,
   <<"X", "P", "_">>,
   <<"S", "P", "_", "C", "O", "N", "F", "I", "G", "U", "R", "E">>}

isReadOnly(sqlText) ==
  LET t == UpperText(sqlText)
  IN  ~\E tok \in banned : includes(t, tok)

\* what the advanced handler did: the text after substitution, whether and
\* what it sent to the database, and the response
Advanced(body, sqlText, sent, rowLimit, fail, status, out) ==
  [op |-> "advanced", body |-> body, sqlText |-> sqlText, sent |-> sent,
   stmt |-> [rowLimit |-> rowLimit, text |-> IF sent THEN sqlText ELSE <<>>],
   fail |-> fail, status |-> status, out |-> out]

\* app.post(`/${endpoint}/a`)
Execute ==
  /\ Route(endpoint, "a", <<>>, "POST", FALSE, NULL) \in BagToSet(routes)
  /\ request.pending /\ request.route = "advanced"
  /\ \E fail \in BOOLEAN :
       LET body == request.query
           b64 == IF K_data \in DOMAIN body THEN body[K_data] ELSE JsonNull
           given == b64.type = "string" /\ b64.text # <<>>
           sub == substituteTemplate(b64.text, body)
           rowLimit == ParsedOr(IF K_rowLimit \in DOMAIN body
                                THEN Given(body[K_rowLimit].text) ELSE Absent,
                                DefaultRowLimit)
       IN  IF ~given
           THEN last' = Advanced(body, <<>>, FALSE, 0, FALSE, 400,
                                 ErrorJson("Field 'data' (base64) is required"))
           ELSE IF sub.threw
           THEN last' = Advanced(body, <<>>, FALSE, 0, FALSE,
                                 Caught("Missing variable").status,
                                 Caught("Missing variable").out)
           ELSE IF ~isReadOnly(sub.text)
           THEN last' = Advanced(body, sub.text, FALSE, 0, FALSE, 400,
                                 ErrorJson("Only read-only queries are permitted in advanced mode"))
           ELSE last' = Advanced(body, sub.text, TRUE, rowLimit, fail,
                                 IF fail THEN Caught(DbErrorMessage).status ELSE 200,
                                 IF fail THEN Caught(DbErrorMessage).out
                                 ELSE Body("recordset", EmptyMap))
  /\ request' = [request EXCEPT !.pending = FALSE]
  /\ UNCHANGED <<lifeVars, tableMeta, endpoint, db, ident>>

\* the pieces the templates of the model are made of
TemplatePieces ==
  {<<"s", "e", "l", "e", "c", "t", " ">>, <<"1">>, <<"{", "{", "n", "}", "}">>, <<"{", "{", " ", "n", " ", "}", "}">>, <<"{", "{", "m", "}", "}">>, <<"d", "r", "o", "p", " ">>, <<"D", "r", "o", "p", "\n", "t", "a", "b", "l", "e">>, <<"'">>, <<"{", "{", " ", "}", "}">>}

RECURSIVE TemplatesUpTo(_)
TemplatesUpTo(k) ==
  IF k = 0 THEN {<<>>}
  ELSE TemplatesUpTo(k - 1)
       \cup {t \o piece : t \in TemplatesUpTo(k - 1), piece \in TemplatePieces}

\* the values the template variables of the model take
VariableValues ==
  {JsonNull, JsonNumber(<<"7">>), JsonString(<<"7">>), JsonString(<<"1", ".", "5">>),
   JsonString(<<"o", "'", "k">>), JsonString(<<"d", "r", "o", "p", " ">>), JsonString(<<"x">>)}

\* the bodies of the model: data absent, a number, or a template; n and m
\* absent or a value; rowLimit absent or given
AdvancedBodies ==
  {Merge(Merge(named, data), limit) :
     named \in UNION {[K -> VariableValues] : K \in SUBSET {K_n, K_m}},
     data \in {EmptyMap, Put(EmptyMap, K_data, JsonNumber(<<"7">>))}
              \cup {Put(EmptyMap, K_data, JsonString(t)) : t \in TemplatesUpTo(MaxPieces)},
     limit \in {EmptyMap, Put(EmptyMap, K_rowLimit, JsonNumber(<<"5">>))}}

InitAdv ==
  /\ InitServing
  /\ tableMeta.table = TblOrders.name
  /\ request \in [pending : {TRUE}, route : {"advanced"}, query : AdvancedBodies]

NextAdv == Execute

SpecAdv == InitAdv /\ [][NextAdv]_vars

(***************************************************************************)
(* The procedure and function handlers, and the server with every handler. *)
(***************************************************************************)
\* the type of a parameter; precision and scale are not given by the model's
\* catalog, so a decimal is Decimal(18, 4)
mapTypeNameToMssql(typeName, maxLength) ==
  LET t == toLowerCase(IF typeName = Undefined THEN <<>> ELSE typeName)
  IN  IF includes(t, Ty_char) \/ t = Ty_text \/ t = Ty_ntext
      THEN IF maxLength > 0 THEN SqlType("NVarChar", maxLength, 0)
           ELSE SqlType("NVarChar", SqlMax, 0)
      ELSE IF includes(t, Ty_int) /\ t # Ty_bigint THEN SqlType("Int", 0, 0)
      ELSE IF t = Ty_bigint THEN SqlType("BigInt", 0, 0)
      ELSE IF t = Ty_bit THEN SqlType("Bit", 0, 0)
      ELSE IF includes(t, Ty_decimal) \/ t = Ty_numeric THEN SqlType("Decimal", 18, 4)
      ELSE IF includes(t, Ty_float) \/ t = Ty_real THEN SqlType("Float", 0, 0)
      ELSE IF includes(t, Ty_date) \/ includes(t, Ty_time) THEN SqlType("DateTime", 0, 0)
      ELSE IF t = Ty_uniqueidentifier THEN SqlType("NVarChar", 50, 0)
      ELSE SqlType("NVarChar", SqlMax, 0)

\* the parameters a handler binds: all of a function's, the non-output ones
\* of a procedure
BoundParams(o) ==
  {i \in DOMAIN o.params : o.kind = "f" \/ ~o.params[i].IS_OUTPUT}

\* request.input(p.PARAM_NAME, type, req.body[p.PARAM_NAME]): a key the body
\* lacks is bound as undefined
ParamInputs(o, body) ==
  [n \in {o.params[i].PARAM_NAME : i \in BoundParams(o)} |->
     LET p == o.params[CHOOSE i \in BoundParams(o) : o.params[i].PARAM_NAME = n]
     IN  [type |-> mapTypeNameToMssql(p.TYPE_NAME, p.MAX_LENGTH),
          value |-> IF n \in DOMAIN body THEN body[n] ELSE Undefined]]

\* what a procedure or function handler did
Called(op, name, body, stmt, fail, status, out) ==
  [op |-> op, name |-> name, body |-> body, stmt |-> stmt, sent |-> TRUE,
   fail |-> fail, status |-> status, out |-> out]

\* the bodies of the model: some of the bound parameters, each with a value
CallBodies(o) ==
  UNION {[K -> Vals] : K \in SUBSET {o.params[i].PARAM_NAME : i \in BoundParams(o)}}

\* app.post(`/${endpoint}/p/${procMeta.proc}`): the procedure works on
\* tables other than the one under request
CallProcedure ==
  /\ \E c \in Conns : \E i \in DOMAIN Objects(c) :
       LET o == Objects(c)[i]
       IN  /\ o.kind = "p"
           /\ Route(EndpointOf(c), "p", o.name, "POST", FALSE, NULL) \in BagToSet(routes)
           /\ \E body \in CallBodies(o), fail \in BOOLEAN, rows \in BOOLEAN :
                LET stmt == [kind |-> "execute", call |-> <<o.schema, o.name>>,
                             params |-> ParamInputs(o, body)]
                IN  last' = Called("procedure", o.name, body, stmt, fail,
                                   IF fail THEN Caught(DbErrorMessage).status ELSE 200,
                                   IF fail THEN Caught(DbErrorMessage).out
                                   ELSE IF rows THEN Body("recordset", EmptyMap)
                                   ELSE Body("recordsets", EmptyMap))
  /\ UNCHANGED <<lifeVars, tableMeta, endpoint, db, ident, request>>

\* app.post(`/${endpoint}/f/${fnMeta.func}`)
CallFunction ==
  /\ \E c \in Conns : \E i \in DOMAIN Objects(c) :
       LET o == Objects(c)[i]
       IN  /\ o.kind = "f"
           /\ Route(EndpointOf(c), "f", o.name, "POST", FALSE, NULL) \in BagToSet(routes)
           /\ \E body \in CallBodies(o), fail \in BOOLEAN, rows \in BOOLEAN :
                LET stmt == [kind |-> IF o.ftype = "FN" THEN "select value"
                                      ELSE "select from",
                             call |-> <<o.schema, o.name>>,
                             params |-> ParamInputs(o, body)]
                IN  last' = Called("function", o.name, body, stmt, fail,
                                   IF fail THEN Caught(DbErrorMessage).status ELSE 200,
                                   IF fail THEN Caught(DbErrorMessage).out
                                   ELSE IF o.ftype = "FN"
                                   THEN (IF rows THEN Body("row", EmptyMap)
                                         ELSE Body("object", EmptyMap))
                                   ELSE Body("recordset", EmptyMap))
  /\ UNCHANGED <<lifeVars, tableMeta, endpoint, db, ident, request>>

\* the requests to the list route and to the advanced route that the server
\* with every handler receives
ArrivingRequests ==
  {[pending |-> TRUE, route |-> "list",
    query |-> ListRequest(EmptyMap, Absent, Given(<<"1">>), Absent)],
   [pending |-> TRUE, route |-> "advanced",
    query |-> Put(EmptyMap, K_data, JsonString(<<"s", "e", "l", "e", "c", "t", " ", "1">>))]}

\* a request to the list route or to the advanced route arrives
Receive ==
  /\ ~request.pending
  /\ request' \in ArrivingRequests
  /\ UNCHANGED <<lifeVars, tableMeta, endpoint, db, ident, last>>

\* the server serves one table of the connection that has the advanced route
InitAll ==
  /\ InitServing
  /\ tableMeta.table = TblOrders.name
  /\ request = [pending |-> FALSE, route |-> "none", query |-> NoRequest.query]

NextAll ==
  \/ Receive
  \/ List
  \/ GetByPk
  \/ Create
  \/ Update
  \/ Delete
  \/ CallProcedure
  \/ CallFunction
  \/ Execute

SpecAll == InitAll /\ [][NextAll]_vars

(***************************************************************************)
(* The discovery endpoints GET /:endpoint/ and GET /:endpoint/{t,v,p,f}.   *)
(* They are functions of components.schemas and of the endpoint in the     *)
(* path; the registry they read is the one the setups of a configuration   *)
(* merge.                                                                  *)
(***************************************************************************)
\* name.startsWith(`${endpoint}_`), on names as sequences of segments
startsWith(name, ep) ==
  Len(name) > Len(ep) /\ SubSeq(name, 1, Len(ep)) = ep

\* name.split('_').slice(1).join('_')
EntityOf(name) == Tail(name)

\* sch['x-msabon-kind'] || (sch['x-msabon-isView'] ? 'v' : 't')
KindOf(sch) == sch.kind

\* listByKind(endpoint, kind), as the set the sorted list holds
listByKind(sch, ep, kind) ==
  {EntityOf(name) : name \in {n \in DOMAIN sch : startsWith(n, ep) /\ KindOf(sch[n]) = kind}}

ObjectLists(sch, ep) ==
  [tables |-> listByKind(sch, ep, "t"), views |-> listByKind(sch, ep, "v"),
   procedures |-> listByKind(sch, ep, "p"), functions |-> listByKind(sch, ep, "f")]

\* the endpoint names and the object names of the configurations
EndpointNames == {<<"api">>, <<"api", "v2">>, <<"crm">>}

DiscoveredNames == {<<"orders">>, <<"v2", "orders">>}

ObjectKinds == {"t", "v", "p", "f"}

\* what one setup discovered: object name -> kind
Discoveries == UNION {[N -> ObjectKinds] : N \in SUBSET DiscoveredNames}

\* two connections with different endpoints, set up in this order, the
\* first with the advanced route
Configurations ==
  {cf \in [1..2 -> [endpoint : EndpointNames, advanced : BOOLEAN, found : Discoveries]] :
     cf[1].endpoint # cf[2].endpoint /\ cf[1].advanced /\ ~cf[2].advanced}

\* the fragments setupDynamicRoutes returns for a connection
FragmentsFound(cn) ==
  LET objs == [k \in {FragmentKey(cn.endpoint, n) : n \in DOMAIN cn.found} |->
                 LET n == CHOOSE m \in DOMAIN cn.found : FragmentKey(cn.endpoint, m) = k
                 IN  Fragment(cn.found[n], cn.found[n] = "v", FALSE, NULL)]
  IN  IF cn.advanced
      THEN Put(objs, FragmentKey(cn.endpoint, <<"advanced">>), AdvancedFragment)
      ELSE objs

\* components.schemas after both setups: Object.assign in the order given
RegistryOf(cf) == Merge(FragmentsFound(cf[1]), FragmentsFound(cf[2]))

ObjectsRequests ==
  [pending : {TRUE}, route : {"objects"},
   query : [config : Configurations, endpoint : EndpointNames, kind : {NULL} \cup ObjectKinds]]

\* app.get('/:endpoint([A-Za-z0-9_-]+)/')
GetObjects ==
  /\ request.pending /\ request.route = "objects" /\ request.query.kind = NULL
  /\ LET q == request.query
         lists == ObjectLists(RegistryOf(q.config), q.endpoint)
         none == /\ lists.tables = {} /\ lists.views = {}
                 /\ lists.procedures = {} /\ lists.functions = {}
     IN  last' = [op |-> "objects", config |-> q.config, endpoint |-> q.endpoint,
                  kind |-> NULL, status |-> IF none THEN 404 ELSE 200,
                  out |-> IF none THEN ErrorJson("No objects found for endpoint")
                          ELSE Body("objects", lists)]
  /\ request' = [request EXCEPT !.pending = FALSE]
  /\ UNCHANGED <<lifeVars, tableMeta, endpoint, db, ident>>

\* app.get('/:endpoint([A-Za-z0-9_-]+)/t') and its like for v, p, f
GetObjectsOfKind ==
  /\ request.pending /\ request.route = "objects" /\ request.query.kind # NULL
  /\ LET q == request.query
     IN  last' = [op |-> "objects", config |-> q.config, endpoint |-> q.endpoint,
                  kind |-> q.kind, status |-> 200,
                  out |-> Body("list", listByKind(RegistryOf(q.config), q.endpoint, q.kind))]
  /\ request' = [request EXCEPT !.pending = FALSE]
  /\ UNCHANGED <<lifeVars, tableMeta, endpoint, db, ident>>

InitObjects ==
  /\ LifeInit
  /\ tableMeta = TableMeta(TblOrders, <<"id">>)
  /\ endpoint = EndpointOf(1)
  /\ db = {}
  /\ ident = 0
  /\ request \in ObjectsRequests
  /\ last = NoRequest

NextObjects == GetObjects \/ GetObjectsOfKind

SpecObjects == InitObjects /\ [][NextObjects]_vars

(***************************************************************************)
(* The type mappers at their calls: the two column mappers on the rows of  *)
(* getColumns, the column mapper on the key column the by-key handlers     *)
(* look up, the two parameter mappers on the rows of get*Params.           *)
(***************************************************************************)
OpenApiType(type, format) == [type |-> type, format |-> format]

\* toOpenApiType(col): the schema type of a column
toOpenApiType(col) ==
  LET t == toLowerCase(col.DATA_TYPE)
  IN  IF includes(t, Ty_int) THEN OpenApiType("integer", "none")
      ELSE IF t = Ty_bigint THEN OpenApiType("integer", "int64")
      ELSE IF t = Ty_bit THEN OpenApiType("boolean", "none")
      ELSE IF includes(t, Ty_float) \/ t = Ty_real \/ includes(t, Ty_decimal) \/ t = Ty_numeric
      THEN OpenApiType("number", "none")
      ELSE IF includes(t, Ty_date) \/ includes(t, Ty_time)
      THEN OpenApiType("string", "date-time")
      ELSE OpenApiType("string", "none")

\* toOpenApiTypeFromSqlName(typeName): the schema type of a parameter
toOpenApiTypeFromSqlName(typeName) ==
  LET t == toLowerCase(IF typeName = Undefined THEN <<>> ELSE typeName)
  IN  IF includes(t, Ty_int) THEN OpenApiType("integer", "none")
      ELSE IF t = Ty_bigint THEN OpenApiType("integer", "int64")
      ELSE IF t = Ty_bit THEN OpenApiType("boolean", "none")
      ELSE IF includes(t, Ty_float) \/ t = Ty_real \/ includes(t, Ty_decimal) \/ t = Ty_numeric
      THEN OpenApiType("number", "none")
      ELSE IF includes(t, Ty_date) \/ includes(t, Ty_time)
      THEN OpenApiType("string", "date-time")
      ELSE IF t = Ty_uniqueidentifier THEN OpenApiType("string", "uuid")
      ELSE OpenApiType("string", "none")

\* a PRIMARY KEY constraint of one column: its row of TABLE_CONSTRAINTS and
\* its row of KEY_COLUMN_USAGE
KeyConstraint(schema, table, name, column) ==
  [schema |-> schema, table |-> table, name |-> name, column |-> column]

\* getPrimaryKey: the key columns of every constraint that has the name of a
\* PRIMARY KEY constraint of the table (the join is on CONSTRAINT_NAME only)
getPrimaryKey(constraints, schema, table) ==
  {k.column : k \in {c \in constraints :
                       \E t \in constraints :
                         t.schema = schema /\ t.table = table /\ t.name = c.name}}

\* the constraints of a database with dbo.orders and a table orders in a
\* second schema: constraint names are unique within a schema only
KeyCatalogs ==
  {{KeyConstraint("dbo", <<"orders">>, "PK_orders", "id"),
    KeyConstraint("arc", <<"orders">>, "PK_arc_orders", "order_no")},
   {KeyConstraint("dbo", <<"orders">>, "PK_orders", "id"),
    KeyConstraint("arc", <<"orders">>, "PK_orders", "order_no")}}

\* tableMeta of the tables with key routes
KeyMetas ==
  {TableMeta(TblOrders, pk) :
     pk \in UNION {PkOrders(getPrimaryKey(kc, "dbo", <<"orders">>)) : kc \in KeyCatalogs}}
  \cup UNION {{TableMeta(o, pk) : pk \in PkOrders(o.pkRows)} :
                o \in {TblLines, TblCustomers, TblTickets}}

Ty_smallint == <<"s", "m", "a", "l", "l", "i", "n", "t">>

Ty_money == <<"m", "o", "n", "e", "y">>

Ty_BIGINT == <<"B", "I", "G", "I", "N", "T">>

\* the type names the catalog reports
TypeNames ==
  {Ty_int, Ty_varchar, Ty_datetime, Ty_char, Ty_text, Ty_ntext, Ty_bigint, Ty_bit,
   Ty_decimal, Ty_numeric, Ty_float, Ty_real, Ty_date, Ty_time, Ty_uniqueidentifier,
   Ty_smallint, Ty_money, Ty_BIGINT}

TypeLengths == {0, 1, 50}

\* the calls of the mappers: on a column, on the key column of a by-key
\* handler, on a parameter (whose type name may be missing)
MapperCalls ==
  [call : {"column"}, col : {Col("c", t, n) : t \in TypeNames, n \in TypeLengths},
   handler : {"schema"}]
  \cup [call : {"key"},
        col : {FindColumn(m, m.pk[1]) : m \in KeyMetas},
        handler : {"get", "update", "delete"}]
  \cup [call : {"param"},
        col : {Col("p", t, n) : t \in TypeNames \cup {Undefined}, n \in TypeLengths},
        handler : {"call"}]

NoType == SqlType("none", 0, 0)

\* what a call gave: whether it raised, the bind type and the schema type
Mapped(q, raised, bind, schema) ==
  [op |-> "map", call |-> q.call, col |-> q.col, handler |-> q.handler,
   raised |-> raised, bind |-> bind, schema |-> schema]

\* request.input(c, mapSqlTypeToMssqlType(col), v) and props[c] = toOpenApiType(col)
MapColumn ==
  /\ request.pending /\ request.route = "column"
  /\ LET col == request.query.col
     IN  last' = Mapped(request.query, FALSE, mapSqlTypeToMssqlType(col), toOpenApiType(col))
  /\ request' = [request EXCEPT !.pending = FALSE]
  /\ UNCHANGED <<lifeVars, tableMeta, endpoint, db, ident>>

\* request.input(pk, mapSqlTypeToMssqlType(pkCol), req.params[pk]), pkCol
\* being tableMeta.columns.find(c => c.COLUMN_NAME === pk) || {}
MapKeyColumn ==
  /\ request.pending /\ request.route = "key"
  /\ LET pkCol == request.query.col
     IN  last' = IF MapperThrows(pkCol)
                 THEN Mapped(request.query, TRUE, NoType, OpenApiType("none", "none"))
                 ELSE Mapped(request.query, FALSE, mapSqlTypeToMssqlType(pkCol),
                             OpenApiType("none", "none"))
  /\ request' = [request EXCEPT !.pending = FALSE]
  /\ UNCHANGED <<lifeVars, tableMeta, endpoint, db, ident>>

\* request.input(p, mapTypeNameToMssql(TYPE_NAME, MAX_LENGTH, ...), v) and
\* props[p] = toOpenApiTypeFromSqlName(TYPE_NAME)
MapParameter ==
  /\ request.pending /\ request.route = "param"
  /\ LET prm == request.query.col
     IN  last' = Mapped(request.query, FALSE,
                        mapTypeNameToMssql(prm.DATA_TYPE, prm.CHARACTER_MAXIMUM_LENGTH),
                        toOpenApiTypeFromSqlName(prm.DATA_TYPE))
  /\ request' = [request EXCEPT !.pending = FALSE]
  /\ UNCHANGED <<lifeVars, tableMeta, endpoint, db, ident>>

InitTypes ==
  /\ LifeInit
  /\ tableMeta = TableMeta(TblOrders, <<"id">>)
  /\ endpoint = EndpointOf(1)
  /\ db = {}
  /\ ident = 0
  /\ \E q \in MapperCalls : request = [pending |-> TRUE, route |-> q.call, query |-> q]
  /\ last = NoRequest

NextTypes == MapColumn \/ MapKeyColumn \/ MapParameter

SpecTypes == InitTypes /\ [][NextTypes]_vars

(***************************************************************************)
(* The merges of the registry.  Each connection's doAttempt merges what    *)
(* its setup returned when the setup completes; the setups of different    *)
(* connections complete in any order.                                      *)
(***************************************************************************)
\* components.schemas and the connections whose setup has completed
Merged(config, registry, completed) ==
  [op |-> "merge", config |-> config, registry |-> registry, completed |-> completed]

\* components.schemas = { ...components.schemas, ...schemas }
CompleteSetup(i) ==
  /\ last.op = "merge"
  /\ i \in DOMAIN last.config
  /\ i \notin last.completed
  /\ last' = Merged(last.config,
                    Merge(last.registry, FragmentsFound(last.config[i])),
                    last.completed \cup {i})
  /\ UNCHANGED <<lifeVars, tableMeta, endpoint, db, ident, request>>

InitMerge ==
  /\ LifeInit
  /\ tableMeta = TableMeta(TblOrders, <<"id">>)
  /\ endpoint = EndpointOf(1)
  /\ db = {}
  /\ ident = 0
  /\ request = [pending |-> FALSE, route |-> "none", query |-> NoRequest.query]
  /\ \E cf \in Configurations : last = Merged(cf, EmptyMap, {})

NextMerge == \E i \in 1..2 : CompleteSetup(i)

SpecMerge == InitMerge /\ [][NextMerge]_vars

(***************************************************************************)
(* Concurrent writers.  A handler sends its statements as one batch, with  *)
(* no transaction around them: the server runs the statements one after    *)
(* the other, each in its own autocommit transaction, and the statements   *)
(* of the batches that other requests sent over other connections of the   *)
(* pool run in between.  Each writer sends one request to the table.       *)
(***************************************************************************)
Writers == {1, 2, 3}

\* a writer's request: not yet sent ("idle"), its INSERT or UPDATE done and
\* its SELECT still to run ("written"), or answered ("done"); wrote: the
\* rows its statement wrote; col, key: what its SELECT looks for; answer: the
\* response it got
Flight(phase, op, strategy, col, key, body, wrote, answer) ==
  [phase |-> phase, op |-> op, strategy |-> strategy, col |-> col, key |-> key,
   body |-> body, wrote |-> wrote, answer |-> answer]

NoFlight == Flight("idle", "none", NULL, NULL, NULL, EmptyMap, {}, NoRequest)

Answer(w, phase, op, strategy, col, key, body, wrote, stmt, matched, status, out) ==
  LET answer == Handled(op, key, body, stmt, TRUE, FALSE, matched, Cardinality(wrote),
                        status, out)
  IN  /\ request' = [request EXCEPT ![w] =
                       Flight(phase, op, strategy, col, key, body, wrote, answer)]
      /\ last' = answer

\* the bodies the writers send: some of the columns, each with a value
WriterBodies(meta) == {b \in Bodies(meta) : "bogus" \notin DOMAIN b}

\* app.post(base), up to and including the INSERT
WriterInserts(w) ==
  /\ Registered("POST", FALSE)
  /\ tableMeta.identity # NULL => ident < MaxVal
  /\ \E body \in WriterBodies(tableMeta) :
       LET cols == BodyColumns(tableMeta, body)
           strategy == CreateStrategy(tableMeta, body)
           col == CASE strategy = "identity" -> tableMeta.identity
                    [] strategy = "pk" -> tableMeta.pk[1]
                    [] OTHER -> NULL
           key == CASE strategy = "identity" -> ValStr(ident + 1)
                    [] strategy = "pk" -> body[tableMeta.pk[1]]
                    [] OTHER -> NULL
           stmt == Statement("insert", strategy, cols, <<>>,
                             IF col = NULL THEN <<>> ELSE <<col>>,
                             InputColumns(tableMeta, cols, body))
           res == DbInsert(tableMeta, db, ident, cols, body, "staging", FALSE)
       IN  /\ db' = res.db
           /\ ident' = res.ident
           /\ IF res.error
              THEN Answer(w, "done", "create", strategy, col, key, body, {}, stmt, 0,
                          Caught(DbErrorMessage).status, Caught(DbErrorMessage).out)
              ELSE IF strategy \in {"identity", "pk"}
              THEN /\ request' = [request EXCEPT ![w] =
                                    Flight("written", "create", strategy, col, key, body,
                                           res.recordset, NoRequest)]
                   /\ UNCHANGED last
              ELSE \E row \in res.recordset :
                     Answer(w, "done", "create", strategy, col, key, body, res.recordset,
                            stmt, 0, 201, Body("row", row))

\* app.put(`${base}/:${pk}`), up to and including the UPDATE
WriterUpdates(w) ==
  /\ Registered("PUT", TRUE)
  /\ \E key \in Vals, body \in WriterBodies(tableMeta) :
       LET pk == tableMeta.pk[1]
           sets == UpdateSets(tableMeta, pk, body)
           params == Input(InputColumns(tableMeta, sets, body), pk,
                           mapSqlTypeToMssqlType(FindColumn(tableMeta, pk)), key)
           strategy == UpdateStrategy(tableMeta)
           stmt == Statement("update", strategy, <<>>, sets, <<pk>>, params)
           res == DbUpdate(tableMeta, db, ident, pk, key, sets, body, FALSE)
           matched == Cardinality(Matching(db, pk, key))
       IN  /\ ~NoUpdatableFields(sets)
           /\ db' = res.db
           /\ ident' = res.ident
           /\ IF res.error
              THEN Answer(w, "done", "update", strategy, pk, key, body, {}, stmt, matched,
                          Caught(DbErrorMessage).status, Caught(DbErrorMessage).out)
              ELSE IF strategy = "reselect"
              THEN /\ request' = [request EXCEPT ![w] =
                                    Flight("written", "update", strategy, pk, key, body,
                                           res.recordset, NoRequest)]
                   /\ UNCHANGED last
              ELSE IF res.recordset = {}
              THEN Answer(w, "done", "update", strategy, pk, key, body, {}, stmt, matched,
                          404, NoBody)
              ELSE \E row \in res.recordset :
                     Answer(w, "done", "update", strategy, pk, key, body, res.recordset,
                            stmt, matched, 200, Body("row", row))

\* app.delete(`${base}/:${pk}`): one statement captures the row
WriterDeletes(w) ==
  /\ Registered("DELETE", TRUE)
  /\ \E key \in Vals :
       LET pk == tableMeta.pk[1]
           params == Input(EmptyMap, pk, mapSqlTypeToMssqlType(FindColumn(tableMeta, pk)), key)
           strategy == DeleteStrategy(tableMeta)
           stmt == Statement("delete", strategy, <<>>, <<>>, <<pk>>, params)
           res == DbDelete(db, ident, pk, key, FALSE)
           matched == Cardinality(Matching(db, pk, key))
       IN  /\ db' = res.db
           /\ ident' = res.ident
           /\ IF res.recordset = {}
              THEN Answer(w, "done", "delete", strategy, pk, key, EmptyMap, {}, stmt,
                          matched, 404, NoBody)
              ELSE \E row \in res.recordset :
                     Answer(w, "done", "delete", strategy, pk, key, EmptyMap,
                            res.recordset, stmt, matched, 200, Body("row", row))

\* a writer's request reaches its handler, which runs its first statement
WriterWrites(w) ==
  /\ request[w].phase = "idle"
  /\ WriterInserts(w) \/ WriterUpdates(w) \/ WriterDeletes(w)
  /\ UNCHANGED <<lifeVars, tableMeta, endpoint>>

\* SELECT * FROM table WHERE [col] = @id or @pk, the last statement of the
\* batch, and the response from the last recordset
WriterReselects(w) ==
  /\ request[w].phase = "written"
  /\ LET f == request[w]
         rs == Matching(db, f.col, f.key)
         stmt == Statement("select", f.strategy, <<>>, <<>>, <<f.col>>, EmptyMap)
     IN  IF rs = {}
         THEN Answer(w, "done", f.op, f.strategy, f.col, f.key, f.body, f.wrote, stmt, 0,
                     IF f.op = "create" THEN 201 ELSE 404,
                     IF f.op = "create" THEN Body("object", EmptyMap) ELSE NoBody)
         ELSE \E row \in rs :
                Answer(w, "done", f.op, f.strategy, f.col, f.key, f.body, f.wrote, stmt,
                       Cardinality(rs), IF f.op = "create" THEN 201 ELSE 200,
                       Body("row", row))
  /\ UNCHANGED <<lifeVars, tableMeta, endpoint, db, ident>>

\* the writers write to one table that has an enabled trigger and a
\* single-column key
InitWriters ==
  /\ InitServing
  /\ tableMeta.hasTriggers /\ Len(tableMeta.pk) = 1
  /\ request = [w \in Writers |-> NoFlight]

NextWriters == \E w \in Writers : WriterWrites(w) \/ WriterReselects(w)

SpecWriters == InitWriters /\ [][NextWriters]_vars

(***************************************************************************)
(* Properties of the life cycle.                                           *)
(***************************************************************************)
RouteSet == BagToSet(routes)

IsPrefix(p, s) == Len(p) <= Len(s) /\ SubSeq(s, 1, Len(p)) = p

\* the registered routes under a connection's endpoint
RoutesOf(c) == {r \in RouteSet : r.ep = EndpointOf(c)}

\* the registry keys under a connection's endpoint
FragsOf(c) == {k \in DOMAIN schemas : IsPrefix(EndpointOf(c), k)}

\* the registry key of a route's {endpoint, kind, name}
RouteKey(r) ==
  FragmentKey(r.ep, IF r.kind = "a" THEN <<"advanced">> ELSE r.name)

RouteHasFragment(r) ==
  RouteKey(r) \in DOMAIN schemas /\ schemas[RouteKey(r)].kind = r.kind

FragmentHasRoute(k) ==
  \E r \in RouteSet : RouteKey(r) = k /\ r.kind = schemas[k].kind

\* C1: whenever no setup of a connection is in progress, every route
\* registered under its endpoint has its fragment in the registry, and every
\* fragment of the endpoint has a registered route.
C1_RoutesMatchFragments ==
  \A c \in Conns :
    pc[c] # "discovering" =>
      /\ \A r \in RoutesOf(c) : RouteHasFragment(r)
      /\ \A k \in FragsOf(c) : FragmentHasRoute(k)

\* C2: a setup attempt that fails leaves no route and no fragment of its
\* endpoint, and leaves the routes and fragments of every other endpoint as
\* they were.
C2_FailedSetupLeavesNothing ==
  [][\A c \in Conns :
       (pc[c] = "discovering" /\ pc'[c] = "waiting") =>
         /\ RoutesOf(c)' = {}
         /\ FragsOf(c)' = {}
         /\ \A d \in Conns \ {c} :
              RoutesOf(d)' = RoutesOf(d) /\ FragsOf(d)' = FragsOf(d)]_vars

\* C3: once a connection's setup has succeeded and the rebuild its own
\* first call triggers has run, the path document holds the entries of
\* every fragment the connection merged (no later step of this connection
\* rebuilds the document).
C3_DocumentIncludesMergedFragments ==
  \A c \in Conns :
    (pc[c] = "done" /\ thenState[c] = "ran") =>
      \A k \in DOMAIN openApiSchemas[c] :
        PathsOfFragment(k, schemas[k]) \subseteq paths

\* C4: after a failed attempt exactly one retry is pending, with the
\* 30-second delay and the next attempt number; in every other position,
\* and after a success in particular, no retry is pending.
C4_OneRetryPerFailure ==
  \A c \in Conns :
    /\ pc[c] = "waiting" =>
         timers[c] = <<[delay |-> 30000, attempt |-> attempt[c] + 1]>>
    /\ pc[c] # "waiting" => timers[c] = <<>>

\* a second attempt has failed as well, and another connection has succeeded
\* on its retry
C4_Witness ==
  \E c, d \in Conns :
    /\ pc[c] = "waiting" /\ attempt[c] >= 1
    /\ pc[d] = "done" /\ attempt[d] >= 1

\* the key and create routes registered for an object
KeyRoutesOf(c, o) ==
  {r \in RoutesOf(c) :
     r.kind = o.kind /\ r.name = o.name /\ (r.byKey \/ r.method = "POST")}

\* C5: a described table or view has get-by-key, create, update and delete
\* routes exactly when it is a table with a single-column primary key.
C5_KeyRoutesIffSingleColumnPk ==
  \A c \in Conns :
    \A i \in 1..Len(Objects(c)) :
      LET o == Objects(c)[i]
      IN  (o.kind \in {"t", "v"} /\
           Route(EndpointOf(c), o.kind, o.name, "GET", FALSE, NULL) \in RouteSet)
          => (KeyRoutesOf(c, o) # {}
                <=> (o.kind = "t" /\ Cardinality(o.pkRows) = 1))

C7_NotFoundIffNoRow ==
  (last.op \in {"get", "update", "delete"} /\ last.sent /\ ~last.fail)
  => /\ last.status = 404 <=> last.matched = 0
     /\ last.status # 500
     /\ last.matched > 0 =>
          /\ last.status = 200
          /\ last.affected = 1
          /\ last.out.tag = "row"
          /\ last.out.row[tableMeta.pk[1]] = last.key

IsIntegerText(v) ==
  /\ v.present
  /\ LET u == IF v.text # <<>> /\ Head(v.text) \in {"-", "+"} THEN Tail(v.text)
              ELSE v.text
     IN  u # <<>> /\ \A i \in DOMAIN u : IsDigit(u[i])

\* the pagination clause and bound parameters of the statement for a limit
\* and an offset
PagingAsClaimed(limit, offset) ==
  /\ last.sent
  /\ (limit < 0 /\ offset = 0) =>
       /\ last.stmt.paging = "none"
       /\ DOMAIN last.stmt.params \cap {"offset", "limit"} = {}
  /\ (limit < 0 /\ offset > 0) =>
       /\ last.stmt.paging = "offset"
       /\ "limit" \notin DOMAIN last.stmt.params
       /\ "offset" \in DOMAIN last.stmt.params
       /\ last.stmt.params["offset"] = [type |-> SqlInt, value |-> offset]
  /\ limit >= 0 =>
       /\ last.stmt.paging = "offset-fetch"
       /\ {"offset", "limit"} \subseteq DOMAIN last.stmt.params
       /\ last.stmt.params["offset"] = [type |-> SqlInt, value |-> offset]
       /\ last.stmt.params["limit"] = [type |-> SqlInt, value |-> limit]

ClampedOffset(v) == IF ParsedOr(v, 0) < 0 THEN 0 ELSE ParsedOr(v, 0)

\* C9 as stated: the limit is -1 when the parameter is absent or not an
\* integer; the clause is none, OFFSET, or OFFSET and FETCH NEXT by the limit
\* and the clamped offset, both bound as parameters.
C9_PagingFromIntegerLimit ==
  last.op = "list" =>
    PagingAsClaimed(IF IsIntegerText(last.query.limit)
                    THEN parseInt(last.query.limit).val ELSE -1,
                    ClampedOffset(last.query.offset))

\* C9 amended: the limit is the integer the parameter's text begins with
\* (after white space; "2x" is 2, "1.5" is 1), and -1 when the parameter is
\* absent or begins with no integer; the rest as stated.
C9_PagingFromLeadingInteger ==
  last.op = "list" =>
    PagingAsClaimed(ParsedOr(last.query.limit, -1), ClampedOffset(last.query.offset))

\* limit=2x with a negative offset: FETCH NEXT 2 rows from offset 0
C9_Witness ==
  /\ last.op = "list"
  /\ last.query.limit = Given(<<"2", "x">>)
  /\ last.query.offset = Given(<<"-", "3">>)
  /\ last.stmt.paging = "offset-fetch"
  /\ last.stmt.params["limit"].value = 2
  /\ last.stmt.params["offset"].value = 0

\* C10: the ORDER BY column of a list statement is the requested column when
\* the object has it, and otherwise the first column of the primary key
\* discovered or, without one, the first column, ascending; whatever the
\* order value, the statement is sent and only a database failure gives 500.
C10_OrderByKnownColumnOrDefault ==
  last.op = "list" =>
    LET o == last.query.order
        requested == IF o.present THEN o.parts[1] ELSE ""
        dflt == IF Len(tableMeta.pk) > 0 THEN tableMeta.pk[1]
                ELSE tableMeta.columns[1].COLUMN_NAME
    IN  /\ last.sent
        /\ last.status = IF last.fail THEN 500 ELSE 200
        /\ requested \in ColumnNames(tableMeta) => last.stmt.orderCol = requested
        /\ requested \notin ColumnNames(tableMeta) =>
             last.stmt.orderCol = dflt /\ last.stmt.orderDir = "ASC"

\* order=nope.desc on a table whose key column is not its first column
C10_Witness ==
  /\ last.op = "list"
  /\ last.query.order = [present |-> TRUE, parts |-> <<"nope", "desc">>]
  /\ Len(tableMeta.pk) > 0
  /\ tableMeta.pk[1] # tableMeta.columns[1].COLUMN_NAME
  /\ last.stmt.orderCol = tableMeta.pk[1]
  /\ last.stmt.orderDir = "ASC"
  /\ last.status = 200

\* the document entry that describes a registered route (the endpoints of
\* cfg.connections are one segment each)
PathOfRoute(r) ==
  IF r.kind = "a" THEN PathEntry(Head(r.ep), "a", <<>>, "adv", "post")
  ELSE PathEntry(Head(r.ep), r.kind, r.name, IF r.byKey THEN "id" ELSE "base",
                 CASE r.method = "GET" -> "get"
                   [] r.method = "POST" -> "post"
                   [] r.method = "PUT" -> "put"
                   [] r.method = "DELETE" -> "delete")

\* C16: right after a rebuild of the path document, its entries are exactly
\* the paths and methods of the registered routes.
C16_DocumentMatchesRoutes ==
  [][\A c \in Conns :
       (thenState[c] = "queued" /\ thenState'[c] = "ran") =>
         paths' = {PathOfRoute(r) : r \in BagToSet(routes')}]_vars

\* C22: discovery is one-shot for each endpoint, so no route is registered
\* on app more than once.
C22_RoutesRegisteredOnce ==
  \A r \in BagToSet(routes) : CopiesIn(r, routes) <= 1

(***************************************************************************)
(* Properties of the statements of the write handlers.                     *)
(***************************************************************************)
\* C18: the statement of a create is the direct OUTPUT when the table has no
\* enabled trigger; with a trigger it reselects by SCOPE_IDENTITY when the
\* table has an identity column; with a trigger and no identity column it
\* reselects by the key when the body gives the key; in every other case it
\* goes through the staging table.  The four cases exclude each other and
\* cover every table and body.
C18_CreateStrategyPriority ==
  last.op = "create" =>
    LET trig == tableMeta.hasTriggers
        idn == tableMeta.identity # NULL
        keyed == Len(tableMeta.pk) > 0 /\ tableMeta.pk[1] \in DOMAIN last.body
        st == last.stmt.strategy
    IN  /\ last.stmt.kind = "insert"
        /\ st \in {"direct", "identity", "pk", "staging"}
        /\ st = "direct" <=> ~trig
        /\ st = "identity" <=> trig /\ idn
        /\ st = "pk" <=> trig /\ ~idn /\ keyed
        /\ st = "staging" <=> trig /\ ~idn /\ ~keyed
        /\ st = "identity" => last.stmt.where = <<tableMeta.identity>>
        /\ st = "pk" => last.stmt.where = <<tableMeta.pk[1]>>

\* a create on a table with a trigger and an identity column whose body
\* names the key column: the reselect by SCOPE_IDENTITY is chosen
C18_Witness ==
  /\ last.op = "create"
  /\ tableMeta.hasTriggers /\ tableMeta.identity # NULL
  /\ tableMeta.pk[1] \in DOMAIN last.body
  /\ last.stmt.strategy = "identity"

\* C19 as stated: update and delete alike capture the row by the direct
\* OUTPUT when the table has no enabled trigger and through the staging
\* table when it has one.
C19_UpdateAndDeleteUseStaging ==
  (last.op \in {"update", "delete"} /\ last.sent) =>
    last.stmt.strategy = IF tableMeta.hasTriggers THEN "staging" ELSE "direct"

\* C19: without an enabled trigger update and delete capture the row by the
\* direct OUTPUT; with one, delete goes through the staging table and update
\* runs the UPDATE and then selects the row by the key it was given.
C19_UpdateReselectsDeleteUsesStaging ==
  (last.op \in {"update", "delete"} /\ last.sent) =>
    /\ ~tableMeta.hasTriggers => last.stmt.strategy = "direct"
    /\ (tableMeta.hasTriggers /\ last.op = "delete") => last.stmt.strategy = "staging"
    /\ (tableMeta.hasTriggers /\ last.op = "update") =>
         /\ last.stmt.strategy = "reselect"
         /\ last.stmt.where = <<tableMeta.pk[1]>>

\* an update of an existing row of a table with an enabled trigger
C19_Witness ==
  /\ last.op = "update" /\ last.sent /\ tableMeta.hasTriggers
  /\ last.status = 200 /\ last.matched = 1

(***************************************************************************)
(* Properties of the SQL text.                                             *)
(***************************************************************************)
\* every identifier the request contributes to the text is a known column,
\* and the parameters are named after known columns or are offset and limit
OnlyKnownColumns(stmt) ==
  /\ Range(stmt.cols) \cup Range(stmt.sets) \cup Range(stmt.where)
       \subseteq ColumnNames(tableMeta)
  /\ stmt.orderCol \in ColumnNames(tableMeta) \cup {NULL}
  /\ stmt.orderDir \in {"ASC", "DESC", NULL}
  /\ DOMAIN stmt.params \subseteq ColumnNames(tableMeta) \cup {"offset", "limit"}

\* limit < 0 (no FETCH) and offset = 0 (no OFFSET) as the handler reads them
PagingShape(q) ==
  LET parsed == ParsedOr(q.offset, 0)
  IN  <<ParsedOr(q.limit, -1) < 0, (IF parsed < 0 THEN 0 ELSE parsed) = 0>>

\* C23 as stated: the request contributes known column names only, and two
\* requests that differ only in values produce the same SQL text.
C23_SameTextForSameKeys ==
  last.op = "pair" =>
    /\ OnlyKnownColumns(last.stmts[1]) /\ OnlyKnownColumns(last.stmts[2])
    /\ SqlText(last.stmts[1]) = SqlText(last.stmts[2])

\* C23: the request contributes known column names only, every value is
\* bound as a parameter, and two requests that differ only in values produce
\* the same SQL text when their limits are both negative or both not and
\* their offsets are both zero or both not (the values of limit and offset
\* choose among the three tails of the list statement).
C23_SameTextForSameKeysAndPagingShape ==
  last.op = "pair" =>
    /\ OnlyKnownColumns(last.stmts[1]) /\ OnlyKnownColumns(last.stmts[2])
    /\ PagingShape(last.first.query) = PagingShape(last.second.query) =>
         SqlText(last.stmts[1]) = SqlText(last.stmts[2])

\* two list requests with different filter values and different limits,
\* ordered by a name that is no column: one text
C23_Witness ==
  /\ last.op = "pair" /\ last.first.op = "list"
  /\ DOMAIN last.first.query.filters # {}
  /\ last.first.query.filters # last.second.query.filters
  /\ last.first.query.order.present /\ last.first.query.order.parts = <<"nope">>
  /\ last.stmts[1].paging = "offset-fetch"
  /\ last.stmts[1].params["limit"] # last.stmts[2].params["limit"]
  /\ SqlText(last.stmts[1]) = SqlText(last.stmts[2])

(***************************************************************************)
(* Properties of discovery.                                                *)
(***************************************************************************)
\* C11: an include list of one plain name discovers exactly the object of
\* that name, for every name of letters, digits and underscores; an include
\* list of one ^p discovers exactly the objects whose name starts with p.
C11_PlainNameAndPrefixPatterns ==
  (last.op = "discover" /\ Len(last.patterns) = 1 /\ ~Contains(last.patterns[1], "%"))
  => LET pat == last.patterns[1]
     IN  IF Head(pat) = "^"
         THEN last.found = {n \in last.catalog : IsPrefix(Tail(pat), n)}
         ELSE last.found = last.catalog \cap {pat}

\* the match the claim gives a pattern: ^p is LIKE p%, a pattern with % or _
\* is LIKE the pattern itself, any other pattern is equality
ClaimedMatcher(pat) ==
  IF Head(pat) = "^" THEN [op |-> "LIKE", value |-> Tail(pat) \o <<"%">>]
  ELSE IF \E i \in DOMAIN pat : pat[i] \in {"%", "_"} THEN [op |-> "LIKE", value |-> pat]
  ELSE [op |-> "=", value |-> pat]

\* C24: the query of a non-empty include list has exactly one comparison
\* clause per pattern, on the kind's name column; each clause names a bound
\* parameter of its own (the tag and the position, never the pattern text),
\* bound once to the value the pattern stands for: rest + % under LIKE for
\* ^rest, the pattern under LIKE when it holds % or _, the pattern under
\* equality otherwise.  The clauses are OR-combined under the kind's type
\* filter: exactly the kind's objects that match some pattern are found.
C24_OneClausePerPattern ==
  (last.op = "discover" /\ Len(last.patterns) > 0)
  => LET st == last.stmt
         k == DiscoverKinds[last.kind]
     IN  /\ Len(st.where) = Len(last.patterns)
         /\ \A i, j \in DOMAIN st.where : i # j => st.where[i].key # st.where[j].key
         /\ \A i \in DOMAIN st.where :
              LET c == st.where[i]
                  m == ClaimedMatcher(last.patterns[i])
              IN  /\ c = [col |-> k.col, op |-> m.op, key |-> <<k.tag, i - 1>>]
                  /\ Cardinality({n \in DOMAIN st.inputs : st.inputs[n].key = c.key}) = 1
                  /\ ParamValue(st.inputs, c.key) = m.value
         /\ st.from = k.from /\ st.filter = k.filter
         /\ last.found =
              {n \in last.catalog :
                 \E i \in DOMAIN last.patterns :
                   LET m == ClaimedMatcher(last.patterns[i])
                   IN  IF m.op = "LIKE" THEN Like(n, m.value) ELSE n = m.value}

\* a table query of three patterns, one of each form, over a catalog that
\* also holds a view of a matching name: both tables are found, the view not
C24_Witness ==
  /\ last.op = "discover" /\ last.kind = "table"
  /\ last.patterns = <<<<"1">>, <<"^", "a">>, <<"_", "_">>>>
  /\ last.others = {<<"a">>}
  /\ last.catalog = {<<"1">>, <<"1", "a">>}
  /\ last.found = last.catalog
  /\ Len(last.stmt.where) = 3

(***************************************************************************)
(* Properties of the advanced route.                                       *)
(***************************************************************************)
\* the template of the last advanced request, when it gave one
TemplateOf(body) ==
  IF K_data \in DOMAIN body /\ body[K_data].type = "string" THEN body[K_data].text
  ELSE <<>>

\* the pieces without a placeholder, and the two spellings of {{ n }}
PlainPieces == {piece \in TemplatePieces : ~\E i \in DOMAIN piece :
                  MatchPlaceholder(SubSeq(piece, i, Len(piece))).ok} \cup {<<>>}

PlaceholdersOfN == {<<"{", "{", "n", "}", "}">>, <<"{", "{", " ", "n", " ", "}", "}">>}

\* the last advanced request had the template pre {{n}} post, a value for n,
\* and its text after substitution is pre, what R makes of the value, post
SubstitutedBy(R(_)) ==
  \A pre \in PlainPieces, ph \in PlaceholdersOfN, post \in PlainPieces :
    (/\ last.op = "advanced"
     /\ TemplateOf(last.body) = pre \o ph \o post
     /\ K_n \in DOMAIN last.body)
    => /\ last.status # 500 \/ last.sent
       /\ last.sqlText = pre \o R(last.body[K_n]) \o post

\* a numeric-looking value as it is, any other value as a quoted literal
QuotedLiteral(v) ==
  IF v.type = "number" \/ IsNumericText(v.text) THEN v.text
  ELSE <<"'">> \o EscapeQuotes(v.text) \o <<"'">>

\* null as NULL, a number or numeric-looking string as it is, any other
\* string with its quotes doubled and no quotes around it
EscapedText(v) ==
  IF v.type = "null" THEN <<"N", "U", "L", "L">>
  ELSE IF v.type = "number" \/ IsNumericText(v.text) THEN v.text
  ELSE EscapeQuotes(v.text)

\* C12 as stated: each {{ name }} is replaced by the body value of name, a
\* numeric-looking value unquoted and every other value as a single-quoted
\* literal with each embedded quote doubled.
C12_QuotedSubstitution ==
  (last.op = "advanced" /\ K_n \in DOMAIN last.body /\ last.body[K_n].type # "null")
  => SubstitutedBy(QuotedLiteral)

\* C12 amended: each {{ name }} is replaced by the body value of name: null
\* as NULL, a number or numeric-looking string as it is, and any other
\* string with each single quote doubled, without quotes around it.
C12_EscapedSubstitution == SubstitutedBy(EscapedText)

\* select {{n}} with n = o'k gives select o''k, which is sent
C12_Witness ==
  /\ last.op = "advanced"
  /\ TemplateOf(last.body) = <<"s", "e", "l", "e", "c", "t", " ">> \o <<"{", "{", "n", "}", "}">>
  /\ K_n \in DOMAIN last.body
  /\ last.body[K_n] = JsonString(<<"o", "'", "k">>)
  /\ last.sqlText = <<"s", "e", "l", "e", "c", "t", " ">> \o <<"o", "'", "'", "k">>
  /\ last.sent
  /\ last.status = 200

\* the keywords of the denylist: its tokens without the trailing blank
Keywords ==
  {IF tok[Len(tok)] = " " THEN SubSeq(tok, 1, Len(tok) - 1) ELSE tok : tok \in banned}

\* the text the last advanced request had after substitution, if it got there
Substituted ==
  /\ last.op = "advanced"
  /\ TemplateOf(last.body) # <<>>
  /\ ~substituteTemplate(TemplateOf(last.body), last.body).threw

\* C13: when the text after substitution contains a keyword of the denylist
\* in any letter case, from the template or from a value, the request is
\* answered 400 and nothing is sent to the database.
C13_DenylistedTextRejected ==
  (Substituted /\ \E k \in Keywords : includes(UpperText(last.sqlText), k))
  => last.status = 400 /\ ~last.sent

\* C14: an advanced request without a data string, or whose template names a
\* placeholder that is no key of the body, is answered 400 with a message
\* and nothing is sent to the database.
C14_InvalidRequestIs400 ==
  (/\ last.op = "advanced"
   /\ \/ TemplateOf(last.body) = <<>>
      \/ substituteTemplate(TemplateOf(last.body), last.body).threw)
  => /\ last.status = 400
     /\ last.out.tag = "error"
     /\ ~last.sent

(***************************************************************************)
(* Properties of the server with every handler.                            *)
(***************************************************************************)
\* C15: whichever handler (list, get, create, update, delete, procedure,
\* function, advanced) sent the statement that the database failed, the
\* request gets the status 500 with the database's error message, and the
\* step leaves everything the handlers of the same and of the other routes
\* work from (the registered routes, the table's metadata, the rows) as it
\* was, so the requests that follow are answered as if it had not arrived
C15_DbErrorIs500AndServerGoesOn ==
  [][(last'.op # "none" /\ last'.fail) =>
       /\ last'.sent
       /\ last'.status = 500
       /\ last'.out = ErrorJson(DbErrorMessage)
       /\ UNCHANGED <<lifeVars, tableMeta, endpoint, db, ident>>]_vars

\* a delete whose key matched a row was failed by the database, after
\* earlier requests were served
C15_Witness ==
  /\ last.op = "delete" /\ last.fail /\ last.matched = 1 /\ db # {}
  /\ last.status = 500

(***************************************************************************)
(* Properties of the discovery endpoints.                                  *)
(***************************************************************************)
\* the names of the objects of one kind that the setup of the connection
\* with endpoint ep discovered
DiscoveredFor(cf, ep, kind) ==
  UNION {{n \in DOMAIN cf[i].found : cf[i].found[n] = kind} :
           i \in {j \in DOMAIN cf : cf[j].endpoint = ep}}

\* C17: GET /{endpoint}/ and GET /{endpoint}/{kind} list exactly the objects
\* discovered for that endpoint, each under its kind, whatever the endpoint
\* names and object names of the configuration are; GET /{endpoint}/ answers
\* 404 exactly when no object was discovered for the endpoint.
C17_ListsTheEndpointsObjects ==
  last.op = "objects" =>
    LET D(kind) == DiscoveredFor(last.config, last.endpoint, kind)
        none == \A kind \in ObjectKinds : D(kind) = {}
    IN  IF last.kind # NULL
        THEN last.out = Body("list", D(last.kind))
        ELSE IF none THEN last.status = 404
        ELSE /\ last.status = 200
             /\ last.out = Body("objects", [tables |-> D("t"), views |-> D("v"),
                                           procedures |-> D("p"), functions |-> D("f")])

(***************************************************************************)
(* Properties of concurrent writers.                                       *)
(***************************************************************************)
\* C20: whatever the other writer does in between, a create that reselects
\* (by SCOPE_IDENTITY or by key) and answers 201 returns the row it
\* inserted, and an update that reselects and answers 200 returns the row
\* it updated.
C20_ReselectObservesOwnRow ==
  \A w \in Writers :
    (request[w].phase = "done" /\ request[w].strategy \in {"identity", "pk", "reselect"}
     /\ request[w].answer.status \in {200, 201}) =>
      /\ request[w].answer.out.tag = "row"
      /\ request[w].answer.out.row \in request[w].wrote

(***************************************************************************)
(* Properties of the merges of the registry.                               *)
(***************************************************************************)
\* C21: in whatever order the setups complete, the registry holds every
\* fragment that every completed setup produced, as that setup produced it,
\* whatever the endpoint names and object names are.
C21_RegistryKeepsEveryFragment ==
  last.op = "merge" =>
    \A i \in last.completed :
      \A k \in DOMAIN FragmentsFound(last.config[i]) :
        /\ k \in DOMAIN last.registry
        /\ last.registry[k] = FragmentsFound(last.config[i])[k]

(***************************************************************************)
(* Properties of the type mappers.                                         *)
(***************************************************************************)
BindTypeNames == {"NVarChar", "Int", "BigInt", "Bit", "Decimal", "Float", "DateTime"}

\* C25: at every call of a mapper, the call of the by-key handlers on the
\* key column they looked up included, the mapper raises no error and returns
\* a bind type (and, in the schema emitter, a schema type).
C25_MappersNeverRaise ==
  last.op = "map"
  => /\ ~last.raised
     /\ last.bind.name \in BindTypeNames
     /\ last.handler \in {"schema", "call"}
        => last.schema.type \in {"integer", "boolean", "number", "string"}

\* C26: a column and a parameter of type bigint get the bind type BigInt and
\* the schema type integer of format int64.
C26_BigintBeforeInt ==
  (last.op = "map" /\ ~last.raised /\ toLowerCase(last.col.DATA_TYPE) = Ty_bigint)
  => /\ last.bind = SqlType("BigInt", 0, 0)
     /\ last.handler \in {"schema", "call"} => last.schema = OpenApiType("integer", "int64")

(***************************************************************************)
(* Properties of the list handler's parameters.                            *)
(***************************************************************************)
\* C27: in a list request no parameter name is bound twice (offset and
\* limit never have the name of a column-filter parameter), and no column
\* filter is made of the query keys order, limit and offset, whatever the
\* names of the object's columns.
C27_OneValuePerParameter ==
  last.op = "list"
  => /\ ~BoundTwice(last.inputs)
     /\ \A i \in DOMAIN last.stmt.where : last.stmt.where[i] \notin ReservedKeys

=============================================================================
